---------------------------- MODULE Spec2Model ----------------------------
(***************************************************************************)
(* The Astro hydration-state decoder of plugins/russian/hexnovels.ts:      *)
(* getAstroValueByKey (key scan) and resolveAstroValue (recursive          *)
(* expansion of integer back-references with a memo cache and a visiting   *)
(* set).  The recursion of resolveAstroValue is modelled by an explicit    *)
(* stack of frames, one frame per container that is being mapped.          *)
(***************************************************************************)
EXTENDS Integers, Sequences, FiniteSets, TLC

(***************************************************************************)
(* JSON values (type AstroStateValue).  A number n + 1/2 is written with   *)
(* half = TRUE, so that Number.isInteger has something to reject.          *)
(***************************************************************************)
Null == [t |-> "null"]

Undefined == [t |-> "undef"]

Str(s) == [t |-> "str", s |-> s]

Num(n) == [t |-> "num", n |-> n, half |-> FALSE]

HalfNum(n) == [t |-> "num", n |-> n, half |-> TRUE]

Bool(b) == [t |-> "bool", b |-> b]

Arr(elems) == [t |-> "arr", e |-> elems]

Obj(props) == [t |-> "obj", p |-> props]

IsArray(v) == v.t = "arr"

IsObject(v) == v.t = "obj"

IsContainer(v) == IsArray(v) \/ IsObject(v)

(***************************************************************************)
(* Bounds of the model.                                                    *)
(***************************************************************************)
MaxLen == 3

MaxCalls == 2

MaxDepth == 12

(***************************************************************************)
(* The inputs: tables are all sequences of at most MaxLen slots drawn      *)
(* from Slots, together with the tables the specification names.           *)
(***************************************************************************)
Keys == {"k", "current-book"}

Slots ==
  { Str("k"), Null, Num(0), Num(1), Num(2),
    Arr(<<Num(0), Num(0), Num(99)>>),
    Arr(<<Num(2), Str("k")>>),
    Arr(<<Arr(<<Num(1)>>), Num(-1), HalfNum(0), Bool(TRUE)>>),
    Obj(<< <<"a", Num(0)>>, <<"b", Num(3)>> >>),
    Obj(<< <<"a", Num(1)>>, <<"b", Num(2)>> >>),
    Obj(<< <<"__proto__", Num(0)>>, <<"a", Null>> >>) }

BookTable ==
  << Str("current-book"), Num(2),
     Obj(<< <<"name", Str("Test")>>, <<"id", Num(3)>> >>), Str("abc-id") >>

SelfTable == << Obj(<< <<"self", Num(0)>> >>), Str("k"), Num(0) >>

MemoTable ==
  << Num(0), Obj(<< <<"a", Num(0)>>, <<"b", Num(0)>> >>), Str("k"), Num(1) >>

CountTable == << Obj(<< <<"count", Num(99)>> >>), Str("k"), Num(0) >>

PrimTable == << Num(1), Str("x"), Str("k"), Arr(<<Num(0)>>) >>

PairTable ==
  << Obj(<< <<"b", Num(1)>> >>), Obj(<< <<"a", Num(0)>> >>), Str("k"),
     Arr(<<Num(0), Num(1)>>) >>

TwoKeyTable ==
  << Obj(<< <<"b", Num(1)>> >>), Obj(<< <<"a", Num(0)>> >>), Str("k"), Num(0),
     Str("current-book"), Num(1) >>

DiamondTable ==
  << Obj(<< <<"a", Num(1)>> >>), Str("x"), Arr(<<Num(0), Num(0)>>),
     Str("k"), Num(2) >>

Examples ==
  { BookTable, SelfTable, MemoTable, CountTable, PrimTable, PairTable,
    TwoKeyTable, DiamondTable }

Tables == UNION { [1..n -> Slots] : n \in 1..MaxLen } \cup Examples

VARIABLES table, key, keyIndex, pc, ctl, stack, cache, visiting, result,
          calls, expanded, derefs, first, ncalls, inp, out,
          csrfToken, running

\* the decoder's state
dvars == << table, key, keyIndex, pc, ctl, stack, cache, visiting, result,
            calls, expanded, derefs, first, ncalls >>

\* argument and return value of the functions that keep no state
fvars == << inp, out >>

\* a WebnovelRating instance: its token and the popularNovels calls made
ivars == << csrfToken, running >>

vars == << dvars, fvars, ivars >>

\* no plugin instance has been constructed
NoInstance == csrfToken = Null /\ running = << >>

(***************************************************************************)
(* Helpers of the code.                                                    *)
(***************************************************************************)
RECURSIVE FindFrom(_, _, _)
FindFrom(tbl, k, i) ==
  IF i > Len(tbl) THEN -1
  ELSE IF tbl[i] = Str(k) THEN i - 1
  ELSE FindFrom(tbl, k, i + 1)

RECURSIVE FindBack(_, _, _)
FindBack(tbl, k, i) ==
  IF i < 1 THEN -1
  ELSE IF tbl[i] = Str(k) THEN i - 1
  ELSE FindBack(tbl, k, i - 1)

\* a scan that keeps the last match instead of stopping at the first
FindIndexLast(tbl, k) == FindBack(tbl, k, Len(tbl))

\* astroState.findIndex(item => item === key): 0-based, -1 when absent
FindIndex(tbl, k) == FindFrom(tbl, k, 1)

\* astroState[i] for a 0-based JavaScript index; undefined outside the array
TableGet(tbl, v) ==
  IF v.t = "num" /\ ~v.half /\ v.n >= 0 /\ v.n < Len(tbl)
  THEN tbl[v.n + 1] ELSE Undefined

\* the range check without its upper bound
IsRefNoUpper(tbl, v) ==
  /\ v.t = "num"
  /\ ~v.half
  /\ v.n >= 0

\* typeof value === 'number' && Number.isInteger(value) && value >= 0 &&
\* value < astroState.length
IsRef(tbl, v) ==
  /\ v.t = "num"
  /\ ~v.half
  /\ v.n >= 0
  /\ v.n < Len(tbl)

\* the bounds test off by one
NoSlotAfterOffByOne(tbl, p) == p = -1 \/ p + 1 > Len(tbl)

\* keyIndex === -1 || keyIndex + 1 >= astroState.length
NoSlotAfter(tbl, p) == p = -1 \/ p + 1 >= Len(tbl)

\* a resolver that never consults its cache
CachedNever(c, i) == FALSE

\* cache.has(value)
Cached(c, i) == i \in DOMAIN c

\* a resolver that never consults its visiting set
OnPathNever(vis, i) == FALSE

\* visiting.has(value)
OnPath(vis, i) == i \in vis

\* objectResult[entryKey] = r.  The key "__proto__" goes through the
\* accessor inherited from Object.prototype and defines no own property.
ObjAssign(props, k, r) ==
  IF k = "__proto__" THEN props ELSE Append(props, <<k, r>>)

\* a primitive target that is itself followed as a reference
PrimitiveResultDeref(tbl, target) ==
  IF IsRef(tbl, target) THEN TableGet(tbl, target) ELSE target

\* the value a primitive target resolves to
PrimitiveResult(tbl, target) == target

\* cache.set(value, resolved)
CacheSet(c, i, r) == [j \in DOMAIN c \cup {i} |-> IF j = i THEN r ELSE c[j]]

\* new Map() / new Set() of one getAstroValueByKey call
EmptyCache == [j \in {} |-> Null]

(***************************************************************************)
(* resolveAstroValue as one recursive function: the value it returns and   *)
(* the cache it leaves, for a given cache and visiting set.                *)
(***************************************************************************)
RECURSIVE Eval(_, _, _, _)
RECURSIVE EvalItems(_, _, _, _, _, _)
\* target.map(...) / Object.entries(target).forEach(...), left to right
EvalItems(tbl, c, i, acc, ch, vis) ==
  IF i > (IF IsArray(c) THEN Len(c.e) ELSE Len(c.p))
  THEN [v |-> IF IsArray(c) THEN Arr(acc) ELSE Obj(acc), c |-> ch]
  ELSE LET r == Eval(tbl, IF IsArray(c) THEN c.e[i] ELSE c.p[i][2], ch, vis)
       IN EvalItems(tbl, c, i + 1,
                    IF IsArray(c) THEN Append(acc, r.v)
                    ELSE ObjAssign(acc, c.p[i][1], r.v),
                    r.c, vis)

Eval(tbl, v, ch, vis) ==
  IF IsRef(tbl, v)
  THEN IF Cached(ch, v.n) THEN [v |-> ch[v.n], c |-> ch]
       ELSE IF OnPath(vis, v.n) THEN [v |-> Null, c |-> ch]
       ELSE LET target == TableGet(tbl, v) IN
            IF IsContainer(target)
            THEN LET r == EvalItems(tbl, target, 1, << >>, ch,
                                    vis \cup {v.n})
                 IN [v |-> r.v, c |-> CacheSet(r.c, v.n, r.v)]
            ELSE [v |-> PrimitiveResult(tbl, target),
                  c |-> CacheSet(ch, v.n, PrimitiveResult(tbl, target))]
  ELSE IF IsContainer(v) THEN EvalItems(tbl, v, 1, << >>, ch, vis)
  ELSE [v |-> v, c |-> ch]

\* resolveAstroValue(astroState, value, new Map(), new Set())
FreshResolve(tbl, v) == Eval(tbl, v, EmptyCache, {}).v

Top == stack[Len(stack)]

Pop == SubSeq(stack, 1, Len(stack) - 1)

Frame(i, v) ==
  [ idx |-> i, kind |-> v.t,
    src |-> IF IsArray(v) THEN v.e ELSE v.p,
    pos |-> 1, acc |-> << >> ]

FrameValue(f) == IF f.kind = "arr" THEN Arr(f.acc) ELSE Obj(f.acc)

Init ==
  /\ table \in Tables
  /\ key = ""
  /\ keyIndex = -1
  /\ pc = "idle"
  /\ ctl = Undefined
  /\ stack = << >>
  /\ cache = EmptyCache
  /\ visiting = {}
  /\ result = Undefined
  /\ calls = 0
  /\ expanded = [i \in 0..(Len(table) - 1) |-> 0]
  /\ derefs = {}
  /\ first = [k \in {} |-> Null]
  /\ ncalls = 0
  /\ inp = Null
  /\ out = Null
  /\ NoInstance

Remember(k, r) == IF k \in DOMAIN first THEN first ELSE (k :> r) @@ first

(***************************************************************************)
(* getAstroValueByKey                                                      *)
(***************************************************************************)
KeyAbsent ==
  /\ pc \in {"idle", "done"}
  /\ ncalls < MaxCalls
  /\ \E k \in Keys :
       LET p == FindIndex(table, k) IN
       /\ NoSlotAfter(table, p)
       /\ key' = k
       /\ keyIndex' = p
       /\ result' = Null
       /\ first' = Remember(k, Null)
  /\ pc' = "done"
  /\ ncalls' = ncalls + 1
  /\ calls' = 0
  /\ ctl' = Undefined
  /\ stack' = << >>
  /\ expanded' = [i \in DOMAIN expanded |-> 0]
  /\ derefs' = {}
  /\ UNCHANGED << table, cache, visiting >>
  /\ UNCHANGED << fvars, ivars >>

\* a call that goes on with the cache of the call before it
StartResolveShared ==
  /\ pc \in {"idle", "done"}
  /\ ncalls < MaxCalls
  /\ \E k \in Keys :
       LET p == FindIndex(table, k) IN
       /\ ~NoSlotAfter(table, p)
       /\ key' = k
       /\ keyIndex' = p
       /\ ctl' = TableGet(table, Num(p + 1))
  /\ visiting' = {}
  /\ pc' = "call"
  /\ ncalls' = ncalls + 1
  /\ calls' = 1
  /\ stack' = << >>
  /\ result' = Undefined
  /\ expanded' = [i \in DOMAIN expanded |-> 0]
  /\ derefs' = {}
  /\ UNCHANGED << table, first, cache >>
  /\ UNCHANGED << fvars, ivars >>

\* a call that hands a number in the start slot back as it is
StartResolveNoDeref ==
  /\ pc \in {"idle", "done"}
  /\ ncalls < MaxCalls
  /\ \E k \in Keys :
       LET p == FindIndex(table, k) IN
       /\ ~NoSlotAfter(table, p)
       /\ key' = k
       /\ keyIndex' = p
       /\ ctl' = TableGet(table, Num(p + 1))
       /\ pc' = IF TableGet(table, Num(p + 1)).t = "num" THEN "ret"
                ELSE "call"
  /\ cache' = EmptyCache
  /\ visiting' = {}
  /\ ncalls' = ncalls + 1
  /\ calls' = 1
  /\ stack' = << >>
  /\ result' = Undefined
  /\ expanded' = [i \in DOMAIN expanded |-> 0]
  /\ derefs' = {}
  /\ UNCHANGED << table, first >>
  /\ UNCHANGED << fvars, ivars >>

StartResolve ==
  /\ pc \in {"idle", "done"}
  /\ ncalls < MaxCalls
  /\ \E k \in Keys :
       LET p == FindIndex(table, k) IN
       /\ ~NoSlotAfter(table, p)
       /\ key' = k
       /\ keyIndex' = p
       /\ ctl' = TableGet(table, Num(p + 1))
  /\ cache' = EmptyCache
  /\ visiting' = {}
  /\ pc' = "call"
  /\ ncalls' = ncalls + 1
  /\ calls' = 1
  /\ stack' = << >>
  /\ result' = Undefined
  /\ expanded' = [i \in DOMAIN expanded |-> 0]
  /\ derefs' = {}
  /\ UNCHANGED << table, first >>
  /\ UNCHANGED << fvars, ivars >>

(***************************************************************************)
(* resolveAstroValue                                                       *)
(***************************************************************************)
\* a cache hit that hands back the slot instead of its resolved value
CacheHitRaw ==
  /\ pc = "call"
  /\ IsRef(table, ctl)
  /\ Cached(cache, ctl.n)
  /\ ctl' = TableGet(table, ctl)
  /\ pc' = "ret"
  /\ UNCHANGED << table, key, keyIndex, stack, cache, visiting, result,
                  calls, expanded, derefs, first, ncalls >>
  /\ UNCHANGED << fvars, ivars >>

CacheHit ==
  /\ pc = "call"
  /\ IsRef(table, ctl)
  /\ Cached(cache, ctl.n)
  /\ ctl' = cache[ctl.n]
  /\ pc' = "ret"
  /\ UNCHANGED << table, key, keyIndex, stack, cache, visiting, result,
                  calls, expanded, derefs, first, ncalls >>
  /\ UNCHANGED << fvars, ivars >>

\* a cycle hit that hands back the index itself
CycleHitLiteral ==
  /\ pc = "call"
  /\ IsRef(table, ctl)
  /\ ~Cached(cache, ctl.n)
  /\ OnPath(visiting, ctl.n)
  /\ pc' = "ret"
  /\ UNCHANGED << table, key, keyIndex, ctl, stack, cache, visiting,
                  result, calls, expanded, derefs, first, ncalls >>
  /\ UNCHANGED << fvars, ivars >>

\* a cycle hit that stores its null as the value of the index
CycleHitCaching ==
  /\ pc = "call"
  /\ IsRef(table, ctl)
  /\ ~Cached(cache, ctl.n)
  /\ OnPath(visiting, ctl.n)
  /\ ctl' = Null
  /\ cache' = CacheSet(cache, ctl.n, Null)
  /\ pc' = "ret"
  /\ UNCHANGED << table, key, keyIndex, stack, visiting, result, calls,
                  expanded, derefs, first, ncalls >>
  /\ UNCHANGED << fvars, ivars >>

CycleHit ==
  /\ pc = "call"
  /\ IsRef(table, ctl)
  /\ ~Cached(cache, ctl.n)
  /\ OnPath(visiting, ctl.n)
  /\ ctl' = Null
  /\ pc' = "ret"
  /\ UNCHANGED << table, key, keyIndex, stack, cache, visiting, result,
                  calls, expanded, derefs, first, ncalls >>
  /\ UNCHANGED << fvars, ivars >>

EnterContainer ==
  /\ pc = "call"
  /\ IsRef(table, ctl)
  /\ ~Cached(cache, ctl.n)
  /\ ~OnPath(visiting, ctl.n)
  /\ LET target == TableGet(table, ctl) IN
     /\ IsContainer(target)
     /\ Len(stack) < MaxDepth
     /\ stack' = Append(stack, Frame(ctl.n, target))
  /\ visiting' = visiting \cup {ctl.n}
  /\ derefs' = derefs \cup {ctl}
  /\ pc' = "iter"
  /\ UNCHANGED << table, key, keyIndex, ctl, cache, result, calls,
                  expanded, first, ncalls >>
  /\ UNCHANGED << fvars, ivars >>

EnterPrimitive ==
  /\ pc = "call"
  /\ IsRef(table, ctl)
  /\ ~Cached(cache, ctl.n)
  /\ ~OnPath(visiting, ctl.n)
  /\ LET target == TableGet(table, ctl)
         resolved == PrimitiveResult(table, target) IN
     /\ ~IsContainer(target)
     /\ visiting' = (visiting \cup {ctl.n}) \ {ctl.n}
     /\ cache' = CacheSet(cache, ctl.n, resolved)
     /\ ctl' = resolved
  /\ derefs' = derefs \cup {ctl}
  /\ expanded' = [expanded EXCEPT ![ctl.n] = @ + 1]
  /\ pc' = "ret"
  /\ UNCHANGED << table, key, keyIndex, stack, result, calls, first,
                  ncalls >>
  /\ UNCHANGED << fvars, ivars >>

\* a container outside any reference handed back without being copied
InlineContainerAlias ==
  /\ pc = "call"
  /\ ~IsRef(table, ctl)
  /\ IsContainer(ctl)
  /\ pc' = "ret"
  /\ UNCHANGED << table, key, keyIndex, ctl, stack, cache, visiting,
                  result, calls, expanded, derefs, first, ncalls >>
  /\ UNCHANGED << fvars, ivars >>

InlineContainer ==
  /\ pc = "call"
  /\ ~IsRef(table, ctl)
  /\ IsContainer(ctl)
  /\ Len(stack) < MaxDepth
  /\ stack' = Append(stack, Frame(-1, ctl))
  /\ pc' = "iter"
  /\ UNCHANGED << table, key, keyIndex, ctl, cache, visiting, result,
                  calls, expanded, derefs, first, ncalls >>
  /\ UNCHANGED << fvars, ivars >>

Literal ==
  /\ pc = "call"
  /\ ~IsRef(table, ctl)
  /\ ~IsContainer(ctl)
  /\ pc' = "ret"
  /\ UNCHANGED << table, key, keyIndex, ctl, stack, cache, visiting,
                  result, calls, expanded, derefs, first, ncalls >>
  /\ UNCHANGED << fvars, ivars >>

NextElement ==
  /\ pc = "iter"
  /\ Top.pos <= Len(Top.src)
  /\ ctl' = IF Top.kind = "arr" THEN Top.src[Top.pos] ELSE Top.src[Top.pos][2]
  /\ calls' = calls + 1
  /\ pc' = "call"
  /\ UNCHANGED << table, key, keyIndex, stack, cache, visiting, result,
                  expanded, derefs, first, ncalls >>
  /\ UNCHANGED << fvars, ivars >>

\* a completion that also writes the resolved value back into the table
CompleteExpansionInPlace ==
  /\ pc = "iter"
  /\ Top.pos > Len(Top.src)
  /\ Top.idx >= 0
  /\ LET resolved == FrameValue(Top) IN
     /\ visiting' = visiting \ {Top.idx}
     /\ cache' = CacheSet(cache, Top.idx, resolved)
     /\ table' = [table EXCEPT ![Top.idx + 1] = resolved]
     /\ ctl' = resolved
  /\ expanded' = [expanded EXCEPT ![Top.idx] = @ + 1]
  /\ stack' = Pop
  /\ pc' = "ret"
  /\ UNCHANGED << key, keyIndex, result, calls, derefs, first, ncalls >>
  /\ UNCHANGED << fvars, ivars >>

\* a completion that leaves the index in the visiting set
CompleteExpansionNoDelete ==
  /\ pc = "iter"
  /\ Top.pos > Len(Top.src)
  /\ Top.idx >= 0
  /\ LET resolved == FrameValue(Top) IN
     /\ cache' = CacheSet(cache, Top.idx, resolved)
     /\ ctl' = resolved
  /\ expanded' = [expanded EXCEPT ![Top.idx] = @ + 1]
  /\ stack' = Pop
  /\ pc' = "ret"
  /\ UNCHANGED << table, key, keyIndex, visiting, result, calls, derefs,
                  first, ncalls >>
  /\ UNCHANGED << fvars, ivars >>

CompleteExpansion ==
  /\ pc = "iter"
  /\ Top.pos > Len(Top.src)
  /\ Top.idx >= 0
  /\ LET resolved == FrameValue(Top) IN
     /\ visiting' = visiting \ {Top.idx}
     /\ cache' = CacheSet(cache, Top.idx, resolved)
     /\ ctl' = resolved
  /\ expanded' = [expanded EXCEPT ![Top.idx] = @ + 1]
  /\ stack' = Pop
  /\ pc' = "ret"
  /\ UNCHANGED << table, key, keyIndex, result, calls, derefs, first,
                  ncalls >>
  /\ UNCHANGED << fvars, ivars >>

CompleteInline ==
  /\ pc = "iter"
  /\ Top.pos > Len(Top.src)
  /\ Top.idx < 0
  /\ ctl' = FrameValue(Top)
  /\ stack' = Pop
  /\ pc' = "ret"
  /\ UNCHANGED << table, key, keyIndex, cache, visiting, result, calls,
                  expanded, derefs, first, ncalls >>
  /\ UNCHANGED << fvars, ivars >>

ReturnToFrame ==
  /\ pc = "ret"
  /\ stack # << >>
  /\ LET f == Top
         acc2 == IF f.kind = "arr" THEN Append(f.acc, ctl)
                 ELSE ObjAssign(f.acc, f.src[f.pos][1], ctl) IN
     stack' = [stack EXCEPT ![Len(stack)] =
                 [f EXCEPT !.acc = acc2, !.pos = f.pos + 1]]
  /\ pc' = "iter"
  /\ UNCHANGED << table, key, keyIndex, ctl, cache, visiting, result,
                  calls, expanded, derefs, first, ncalls >>
  /\ UNCHANGED << fvars, ivars >>

ReturnTop ==
  /\ pc = "ret"
  /\ stack = << >>
  /\ result' = ctl
  /\ first' = Remember(key, ctl)
  /\ pc' = "done"
  /\ UNCHANGED << table, key, keyIndex, ctl, stack, cache, visiting,
                  calls, expanded, derefs, ncalls >>
  /\ UNCHANGED << fvars, ivars >>

Next ==
  \/ KeyAbsent
  \/ StartResolve
  \/ CacheHit
  \/ CycleHit
  \/ EnterContainer
  \/ EnterPrimitive
  \/ InlineContainer
  \/ Literal
  \/ NextElement
  \/ CompleteExpansion
  \/ CompleteInline
  \/ ReturnToFrame
  \/ ReturnTop

Spec == Init /\ [][Next]_vars

FairSpec == Spec /\ WF_vars(Next)

TypeOK ==
  /\ pc \in {"idle", "call", "iter", "ret", "done"}
  /\ Len(stack) <= MaxDepth


(***************************************************************************)
(* What the specification says a resolution yields, stated without cache   *)
(* and visiting set.                                                       *)
(***************************************************************************)
\* the position of the first top-level element equal to the key, if any
HasKey(tbl, k) == \E i \in 1..Len(tbl) : tbl[i] = Str(k)

FirstOcc(tbl, k) ==
  CHOOSE i \in 1..Len(tbl) :
    tbl[i] = Str(k) /\ \A j \in 1..(i - 1) : tbl[j] # Str(k)

HasStart(tbl, k) == HasKey(tbl, k) /\ FirstOcc(tbl, k) < Len(tbl)

StartValue(tbl, k) == tbl[FirstOcc(tbl, k) + 1]

InRange(tbl, v) == v.t = "num" /\ ~v.half /\ v.n \in 0..(Len(tbl) - 1)

Elem(c, i) == IF IsArray(c) THEN c.e[i] ELSE c.p[i][2]

Size(c) == IF IsArray(c) THEN Len(c.e) ELSE Len(c.p)

\* the indices a value refers to, at any depth
RECURSIVE RefsIn(_, _)
RefsIn(tbl, v) ==
  IF InRange(tbl, v) THEN {v.n}
  ELSE IF IsContainer(v)
       THEN UNION { RefsIn(tbl, Elem(v, i)) : i \in 1..Size(v) }
  ELSE {}

\* a primitive slot is terminal: it has no successors
Succ(tbl, i) ==
  IF IsContainer(tbl[i + 1])
  THEN UNION { RefsIn(tbl, Elem(tbl[i + 1], j)) : j \in 1..Size(tbl[i + 1]) }
  ELSE {}

RECURSIVE Closure(_, _, _)
Closure(tbl, S, n) ==
  IF n = 0 THEN S
  ELSE Closure(tbl, S \cup UNION { Succ(tbl, i) : i \in S }, n - 1)

Reach(tbl, S) == Closure(tbl, S, Len(tbl))

Acyclic(tbl, v) ==
  \A i \in Reach(tbl, RefsIn(tbl, v)) : i \notin Reach(tbl, Succ(tbl, i))

\* plain substitution of every in-range integer by the contents of its slot
RECURSIVE Subst(_, _)
SubstInside(tbl, c) ==
  IF IsArray(c)
  THEN Arr([i \in 1..Len(c.e) |-> Subst(tbl, c.e[i])])
  ELSE Obj([i \in 1..Len(c.p) |-> <<c.p[i][1], Subst(tbl, c.p[i][2])>>])

Subst(tbl, v) ==
  IF InRange(tbl, v)
  THEN IF IsContainer(tbl[v.n + 1]) THEN SubstInside(tbl, tbl[v.n + 1])
       ELSE tbl[v.n + 1]
  ELSE IF IsContainer(v) THEN SubstInside(tbl, v)
  ELSE v

\* r has the shape of v: same containers, same keys, every in-range integer
\* replaced by the contents of its slot or cut to null, the rest unchanged
RECURSIVE Shaped(_, _, _)
ShapedInside(tbl, c, r) ==
  /\ r.t = c.t
  /\ Size(r) = Size(c)
  /\ \A i \in 1..Size(c) :
       /\ IsObject(c) => r.p[i][1] = c.p[i][1]
       /\ Shaped(tbl, Elem(c, i), Elem(r, i))

Shaped(tbl, v, r) ==
  IF InRange(tbl, v)
  THEN \/ r = Null
       \/ IF IsContainer(tbl[v.n + 1]) THEN ShapedInside(tbl, tbl[v.n + 1], r)
          ELSE r = tbl[v.n + 1]
  ELSE IF IsContainer(v) THEN ShapedInside(tbl, v, r)
  ELSE r = v

FrameValueOfSource(f) == IF f.kind = "arr" THEN Arr(f.src) ELSE Obj(f.src)

IsArrayFrame(f) == f.kind = "arr"

Resolving == pc \in {"call", "iter", "ret"}

Returned == pc = "done" /\ HasStart(table, key)

(***************************************************************************)
(* C1: for a key whose first occurrence has a following slot, the result   *)
(* is the start value with every in-range integer replaced by the resolved *)
(* contents of its slot and everything else, keys included, copied         *)
(* unchanged; without a reachable cycle it is the plain substitution; the  *)
(* "current-book" table yields {"name": "Test", "id": "abc-id"}.           *)
(***************************************************************************)
C1_ResolvedTree ==
  Returned =>
    /\ Shaped(table, StartValue(table, key), result)
    /\ Acyclic(table, StartValue(table, key))
         => result = Subst(table, StartValue(table, key))
    /\ (table = BookTable /\ key = "current-book")
         => result = Obj(<< <<"name", Str("Test")>>, <<"id", Str("abc-id")>> >>)

\* the element the innermost frame is working on
Current == Elem(FrameValueOfSource(Top), Top.pos)

CycleCase == pc = "call" /\ InRange(table, ctl) /\ ctl.n \in visiting

(***************************************************************************)
(* C2: a reference met while its index is on the active recursion path     *)
(* resolves to null at that occurrence only: the frames are left as they   *)
(* are, the enclosing container takes the null as the value of that one    *)
(* element and goes on to resolve its remaining elements; the table        *)
(* [{"self": 0}] resolved at index 0 yields {"self": null}.                *)
(***************************************************************************)
C2_CycleBreak ==
  /\ [][ /\ CycleCase => (pc' = "ret" /\ ctl' = Null /\ stack' = stack)
         /\ (pc = "ret" /\ stack # << >>) =>
              /\ pc' = "iter"
              /\ Len(stack') = Len(stack)
              /\ SubSeq(stack', 1, Len(stack) - 1) = Pop
              /\ stack'[Len(stack)].src = Top.src
              /\ stack'[Len(stack)].pos = Top.pos + 1
              /\ IsArrayFrame(Top) => stack'[Len(stack)].acc = Append(Top.acc, ctl)
         /\ (pc = "iter" /\ Top.pos <= Len(Top.src)) =>
              (pc' = "call" /\ ctl' = Current)
       ]_vars
  /\ []((pc = "done" /\ table = SelfTable /\ key = "k")
          => result = Obj(<< <<"self", Null>> >>))

C2_Witness ==
  /\ pc = "ret"
  /\ stack # << >>
  /\ ctl = Null
  /\ InRange(table, Current)
  /\ Current.n \in visiting
  /\ Top.pos < Len(Top.src)

(***************************************************************************)
(* C3: every resolution that is started comes to its end and returns a     *)
(* value, also on tables whose references form cycles.                     *)
(***************************************************************************)
C3_Terminates ==
  /\ Resolving ~> (pc = "done")
  /\ [](pc = "done" => result.t # "undef")

C3_Witness ==
  /\ Returned
  /\ ~Acyclic(table, StartValue(table, key))
  /\ result.t # "undef"

(***************************************************************************)
(* C4: within one call each index is expanded to completion at most once,  *)
(* and a reference to a cached index returns the cached value without      *)
(* reading the table or touching a frame; resolving index 1 of             *)
(* [0, {"a": 0, "b": 0}] expands index 0 once.                             *)
(***************************************************************************)
C4_Memoized ==
  /\ [](\A i \in DOMAIN expanded : expanded[i] <= 1)
  /\ [][ (pc = "call" /\ InRange(table, ctl) /\ ctl.n \in DOMAIN cache) =>
           /\ pc' = "ret"
           /\ ctl' = cache[ctl.n]
           /\ UNCHANGED << stack, cache, visiting, expanded, derefs >>
       ]_vars
  /\ []((pc = "done" /\ table = MemoTable /\ key = "k") =>
          /\ expanded[0] = 1
          /\ result = Obj(<< <<"a", Num(0)>>, <<"b", Num(0)>> >>))

C4_Witness ==
  /\ pc = "ret"
  /\ stack # << >>
  /\ Top.pos > 1
  /\ InRange(table, Current)
  /\ Current.n \in DOMAIN cache
  /\ Current.n \in RefsIn(table, Elem(FrameValueOfSource(Top), Top.pos - 1))
  /\ expanded[Current.n] = 1

(***************************************************************************)
(* C5: the table is read only at integers i with 0 <= i < table.length; a  *)
(* number that is negative, too large or not an integer is returned as it  *)
(* is; [{"count": 99}] resolved at index 0 yields {"count": 99}.           *)
(***************************************************************************)
C5_RangeChecked ==
  /\ [](\A v \in derefs : InRange(table, v))
  /\ [][ (pc = "call" /\ ctl.t = "num" /\ ~InRange(table, ctl)) =>
           /\ pc' = "ret"
           /\ ctl' = ctl
           /\ UNCHANGED << stack, cache, visiting, expanded, derefs >>
       ]_vars
  /\ []((pc = "done" /\ table = CountTable /\ key = "k")
          => result = Obj(<< <<"count", Num(99)>> >>))

C5_Witness ==
  /\ pc = "ret"
  /\ stack # << >>
  /\ Current.t = "num"
  /\ ~InRange(table, Current)
  /\ ctl = Current
  /\ derefs # {}

(***************************************************************************)
(* C6: when no top-level element equals the key, or the first one that     *)
(* does is the last element, the call returns null and the resolver is     *)
(* never invoked.                                                          *)
(***************************************************************************)
C6_AbsentKey ==
  (pc # "idle" /\ ~HasStart(table, key)) =>
    /\ pc = "done"
    /\ result = Null
    /\ calls = 0

C6_Witness ==
  /\ pc = "done"
  /\ HasKey(table, key)
  /\ FirstOcc(table, key) = Len(table)
  /\ result = Null

(***************************************************************************)
(* C7: the key scan takes the first top-level element equal to the key,    *)
(* never a string inside a container, and resolution starts from the slot  *)
(* after it whatever later occurrences there are.                          *)
(***************************************************************************)
C7_FirstOccurrence ==
  /\ (pc # "idle" /\ HasKey(table, key)) => keyIndex = FirstOcc(table, key) - 1
  /\ (pc # "idle" /\ ~HasKey(table, key)) => keyIndex = -1
  /\ (pc = "call" /\ calls = 1) =>
       (HasStart(table, key) /\ ctl = StartValue(table, key))

C7_Witness ==
  /\ pc = "call"
  /\ calls = 1
  /\ \E j \in (FirstOcc(table, key) + 1)..Len(table) : table[j] = Str(key)

(***************************************************************************)
(* C8: a cycle hit returns null and changes neither cache nor visiting     *)
(* set; the cache gets an entry only when the expansion of an index        *)
(* completes, for that index and with the completed value, so the null of  *)
(* a cycle hit is never the cached value of an index.                      *)
(***************************************************************************)
C8_CacheWrites ==
  /\ [][ /\ CycleCase =>
              (pc' = "ret" /\ ctl' = Null /\ UNCHANGED << cache, visiting >>)
         /\ (Resolving /\ cache' # cache) =>
              \E i \in 0..(Len(table) - 1) :
                /\ i \notin DOMAIN cache
                /\ i \notin visiting'
                /\ cache' = CacheSet(cache, i, ctl')
                /\ pc' = "ret"
                /\ \/ /\ pc = "iter"
                      /\ Top.idx = i
                      /\ Top.pos > Len(Top.src)
                      /\ i \in visiting
                      /\ ctl' = FrameValue(Top)
                   \/ /\ pc = "call"
                      /\ ctl = Num(i)
                      /\ ~IsContainer(table[i + 1])
                      /\ ctl' = table[i + 1]
         /\ (pc = "iter" /\ Top.pos > Len(Top.src) /\ Top.idx >= 0) =>
              (Top.idx \in DOMAIN cache' /\ cache'[Top.idx] = FrameValue(Top))
       ]_vars
  /\ [](\A i \in DOMAIN cache : cache[i] = Null => table[i + 1] = Null)

C8_Witness ==
  /\ pc = "done"
  /\ \E i \in DOMAIN cache :
       /\ IsContainer(table[i + 1])
       /\ i \in Reach(table, Succ(table, i))
       /\ cache[i] # Null

(***************************************************************************)
(* C9: a reference to a slot that stores a primitive yields that primitive *)
(* itself, also when it is an integer that is a valid index; in [1, "x"]   *)
(* a reference to index 0 yields 1.                                        *)
(***************************************************************************)
C9_TerminalPrimitive ==
  /\ [](\A i \in DOMAIN cache :
          ~IsContainer(table[i + 1]) => cache[i] = table[i + 1])
  /\ [][ (pc = "call" /\ InRange(table, ctl)
            /\ ~IsContainer(table[ctl.n + 1])) =>
           (pc' = "ret" /\ ctl' = table[ctl.n + 1] /\ stack' = stack)
       ]_vars
  /\ []((pc = "done" /\ table = PrimTable /\ key = "k")
          => result = Arr(<<Num(1)>>))

C9_Witness ==
  /\ pc = "ret"
  /\ stack # << >>
  /\ InRange(table, Current)
  /\ InRange(table, table[Current.n + 1])
  /\ table[Current.n + 1] # Current
  /\ ctl = table[Current.n + 1]

(***************************************************************************)
(* C10: a call returns what the first call with the same key on the same   *)
(* table returned.                                                         *)
(***************************************************************************)
C10_Deterministic ==
  pc = "done" => (key \in DOMAIN first /\ result = first[key])

C10_Witness ==
  /\ pc = "done"
  /\ ncalls = 2
  /\ DOMAIN first = {key}
  /\ HasStart(table, key)
  /\ IsContainer(result)
  /\ cache # EmptyCache

(***************************************************************************)
(* C11: no step of the decoder changes the table, and every container     *)
(* that a resolver call returns was built by that resolution: it is the   *)
(* value a frame assembled, either just now or earlier and since cached,  *)
(* never a container taken over from the table.                           *)
(***************************************************************************)
C11_TableUntouched ==
  [][ /\ table' = table
      /\ (pc' = "ret" /\ pc # "ret" /\ IsContainer(ctl')) =>
           \/ /\ pc = "iter"
              /\ Top.pos > Len(Top.src)
              /\ ctl' = FrameValue(Top)
           \/ /\ pc = "call"
              /\ InRange(table, ctl)
              /\ ctl.n \in DOMAIN cache
              /\ expanded[ctl.n] = 1
              /\ ctl' = cache[ctl.n]
      /\ (pc' = "done" /\ pc # "done" /\ IsContainer(result')) =>
           (pc = "ret" /\ result' = ctl)
    ]_vars

C11_Witness ==
  /\ pc = "done"
  /\ IsContainer(result)
  /\ \E i \in 1..Len(table) : result = table[i]

(***************************************************************************)
(* C12: every call starts from an empty cache and an empty visiting set,   *)
(* and its result is what a resolution of that key alone yields, whatever  *)
(* keys were resolved or found absent before it.                           *)
(***************************************************************************)
C12_Independent ==
  /\ (pc = "call" /\ calls = 1) => (cache = EmptyCache /\ visiting = {})
  /\ Returned => result = FreshResolve(table, StartValue(table, key))
  /\ (pc = "done" /\ ~HasStart(table, key)) => result = Null

C12_Witness ==
  /\ pc = "done"
  /\ ncalls = 2
  /\ DOMAIN first = Keys
  /\ \A k \in Keys : HasStart(table, k)
  /\ ~Acyclic(table, StartValue(table, key))
  /\ key \in DOMAIN first
  /\ \E i \in DOMAIN cache :
       cache[i] # FreshResolve(table, Num(i))

(***************************************************************************)
(* C14 as claimed: an in-range integer in the start slot is returned as a  *)
(* number and no slot is read for it.                                      *)
(***************************************************************************)
C14_StartLiteral ==
  (Returned /\ InRange(table, StartValue(table, key))) =>
    (result = StartValue(table, key) /\ derefs = {})

(***************************************************************************)
(* C14 amended: an in-range integer is a reference wherever the resolver   *)
(* meets it, as an element or property value and also as the start value:  *)
(* unless its index is cached or on the path, its slot is read, and a call *)
(* whose start slot holds an in-range integer returns the resolved         *)
(* contents of the slot that integer names.                                *)
(***************************************************************************)
C14_StartDereferenced ==
  /\ [][ (pc = "call" /\ InRange(table, ctl) /\ ctl.n \notin DOMAIN cache
            /\ ctl.n \notin visiting) =>
           (ctl \in derefs' /\ ctl.n \in visiting' \cup DOMAIN cache')
       ]_vars
  /\ []((Returned /\ InRange(table, StartValue(table, key))) =>
          /\ StartValue(table, key) \in derefs
          /\ StartValue(table, key).n \in DOMAIN cache
          /\ result = cache[StartValue(table, key).n])

C14_Witness ==
  /\ Returned
  /\ InRange(table, StartValue(table, key))
  /\ IsContainer(result)
  /\ result # StartValue(table, key)

\* the indices whose expansion is in progress, innermost last
ActivePath == { stack[j].idx : j \in DOMAIN stack } \ {-1}

(***************************************************************************)
(* C19: the visiting set is the set of indices being expanded on the       *)
(* active recursion path, each of them on it once; no index is cached and  *)
(* visiting at once; the set holds at most table.length indices; when the  *)
(* call has returned it is empty and every index entered is cached.        *)
(***************************************************************************)
C19_VisitingIsPath ==
  /\ visiting = ActivePath
  /\ \A i, j \in DOMAIN stack :
       (stack[i].idx >= 0 /\ stack[i].idx = stack[j].idx) => i = j
  /\ visiting \cap DOMAIN cache = {}
  /\ Cardinality(visiting) <= Len(table)
  /\ pc = "done" =>
       (visiting = {} /\ \A v \in derefs : v.n \in DOMAIN cache)

C19_Witness ==
  /\ pc = "iter"
  /\ Cardinality(visiting) >= 2
  /\ DOMAIN cache # {}
  /\ Len(stack) > Cardinality(visiting)

(***************************************************************************)
(* C20 as claimed: every cached value equals what resolving its index      *)
(* alone, from an empty cache and visiting set, yields.                    *)
(***************************************************************************)
C20_CacheIsFresh ==
  Returned => \A i \in DOMAIN cache : cache[i] = FreshResolve(table, Num(i))

(***************************************************************************)
(* C20 amended: the cached value of an index from which no reference       *)
(* cycle can be reached equals what resolving that index alone yields; an  *)
(* index first reached from inside a cycle keeps the null of the cycle hit *)
(* and can differ.                                                         *)
(***************************************************************************)
C20_AcyclicCacheIsFresh ==
  Returned =>
    \A i \in DOMAIN cache :
      Acyclic(table, Num(i)) => cache[i] = FreshResolve(table, Num(i))

C20_Witness ==
  /\ Returned
  /\ \E i \in DOMAIN cache :
       /\ Acyclic(table, Num(i))
       /\ IsContainer(cache[i])
       /\ cache[i] # table[i + 1]
       /\ \E j \in DOMAIN cache : j # i /\ IsContainer(cache[j])

(***************************************************************************)
(* The functions below keep no state: each has a specification that draws  *)
(* the argument, applies the function once and leaves the decoder idle.    *)
(***************************************************************************)
DecoderIdle ==
  /\ table = << >>
  /\ key = ""
  /\ keyIndex = -1
  /\ pc = "idle"
  /\ ctl = Undefined
  /\ stack = << >>
  /\ cache = EmptyCache
  /\ visiting = {}
  /\ result = Undefined
  /\ calls = 0
  /\ expanded = [i \in {} |-> 0]
  /\ derefs = {}
  /\ first = [k \in {} |-> Null]
  /\ ncalls = 0

Pending == [k |-> "pending"]

(***************************************************************************)
(* extractAstroState.  The page either has no #it-astro-state element or   *)
(* has one with a text: empty, not JSON, or the JSON text of a value.      *)
(***************************************************************************)
NoText == [k |-> "empty"]

JunkText == [k |-> "junk"]

JsonText(v) == [k |-> "json", doc |-> v]

Pages ==
  { [el |-> FALSE, text |-> NoText] }
    \cup { [el |-> TRUE, text |-> x] :
             x \in {NoText, JunkText}
                   \cup { JsonText(Arr(t)) : t \in Tables }
                   \cup { JsonText(d) :
                            d \in Slots \cup { Arr(<< >>), Obj(<< >>),
                                                Bool(FALSE), Str("[]"),
                                                Num(7) } } }

\* loadedCheerio('#it-astro-state').html(): null without the element
ElementHtml(page) == IF page.el THEN page.text ELSE [k |-> "none"]

\* !rawState
IsFalsyText(raw) == raw.k \in {"none", "empty"}

\* JSON.parse: the value of a JSON text, a SyntaxError for any other text
JsonParse(raw) ==
  IF raw.k = "json" THEN [ok |-> TRUE, v |-> raw.doc] ELSE [ok |-> FALSE]

\* an extractor that takes whatever the text parses to
ExtractAnyJson(page) ==
  LET rawState == ElementHtml(page) IN
  IF IsFalsyText(rawState) THEN [k |-> "null"]
  ELSE LET parsed == JsonParse(rawState) IN
       IF ~parsed.ok THEN [k |-> "null"]
       ELSE [k |-> "table", v |-> parsed.v]

ExtractAstroState(page) ==
  LET rawState == ElementHtml(page) IN
  IF IsFalsyText(rawState) THEN [k |-> "null"]
  ELSE LET parsed == JsonParse(rawState) IN
       IF ~parsed.ok THEN [k |-> "null"]
       ELSE IF IsArray(parsed.v) THEN [k |-> "table", v |-> parsed.v.e]
       ELSE [k |-> "null"]

ExtractInit ==
  /\ DecoderIdle
  /\ NoInstance
  /\ inp \in Pages
  /\ out = Pending

Extract ==
  /\ out = Pending
  /\ out' = ExtractAstroState(inp)
  /\ UNCHANGED inp
  /\ UNCHANGED << dvars, ivars >>

ExtractSpec == ExtractInit /\ [][Extract]_vars

(***************************************************************************)
(* C13: extractAstroState returns a table exactly when the element is      *)
(* there, its text is not empty and is the JSON text of an array, and then *)
(* the table is that array; in every other case it returns null, and no    *)
(* exception leaves it.                                                    *)
(***************************************************************************)
C13_TableOrNull ==
  out # Pending =>
    /\ out.k \in {"table", "null"}
    /\ out.k = "table" <=>
         (inp.el /\ inp.text.k = "json" /\ inp.text.doc.t = "arr")
    /\ out.k = "table" => out.v = inp.text.doc.e

C13_Witness ==
  /\ out = [k |-> "null"]
  /\ inp.el
  /\ inp.text.k = "json"
  /\ inp.text.doc.t = "obj"

(***************************************************************************)
(* JavaScript primitives over decoded JSON values.  The texts of the model *)
(* use the space as their only white-space character, and hold a character *)
(* that HTML escapes only as a one-character text.                         *)
(***************************************************************************)
\* the value as a condition: !!v
Truthy(v) ==
  CASE v.t \in {"null", "undef"} -> FALSE
    [] v.t = "bool" -> v.b
    [] v.t = "num" -> v.n # 0 \/ v.half
    [] v.t = "str" -> v.s # ""
    [] OTHER -> TRUE

\* typeof v === 'object' for a value that is not null
IsObjectType(v) == v.t \in {"obj", "arr"}

RECURSIVE PropFrom(_, _, _)
PropFrom(props, k, i) ==
  IF i < 1 THEN Undefined
  ELSE IF props[i][1] = k THEN props[i][2]
  ELSE PropFrom(props, k, i - 1)

\* v?.k of a JSON value: undefined unless v is an object that has the key
Prop(v, k) == IF IsObject(v) THEN PropFrom(v.p, k, Len(v.p)) ELSE Undefined

RECURSIVE TrimStart(_)
TrimStart(s) ==
  IF s # "" /\ SubSeq(s, 1, 1) = " " THEN TrimStart(SubSeq(s, 2, Len(s)))
  ELSE s

RECURSIVE TrimEnd(_)
TrimEnd(s) ==
  IF s # "" /\ SubSeq(s, Len(s), Len(s)) = " "
  THEN TrimEnd(SubSeq(s, 1, Len(s) - 1))
  ELSE s

\* s.trim()
Trim(s) == TrimEnd(TrimStart(s))

\* v?.length as a condition
HasLength(v) ==
  CASE IsArray(v) -> Len(v.e) > 0
    [] v.t = "str" -> v.s # ""
    [] IsObject(v) -> Truthy(Prop(v, "length"))
    [] OTHER -> FALSE

RECURSIVE JsString(_)
RECURSIVE JoinComma(_, _)
\* Array.prototype.join(','): null and undefined elements give ''
JoinComma(elems, i) ==
  IF i > Len(elems) THEN ""
  ELSE (IF i > 1 THEN "," ELSE "")
       \o (IF elems[i].t \in {"null", "undef"} THEN "" ELSE JsString(elems[i]))
       \o JoinComma(elems, i + 1)

\* String(v); a number n + 1/2 is printed for n >= 0
JsString(v) ==
  CASE v.t = "str" -> v.s
    [] v.t = "null" -> "null"
    [] v.t = "undef" -> "undefined"
    [] v.t = "bool" -> IF v.b THEN "true" ELSE "false"
    [] v.t = "num" -> IF v.half THEN ToString(v.n) \o ".5" ELSE ToString(v.n)
    [] v.t = "obj" -> "[object Object]"
    [] v.t = "arr" -> JoinComma(v.e, 1)

(***************************************************************************)
(* lib/proseMirrorToHtml.ts, called without options.                       *)
(***************************************************************************)
\* type.toLowerCase().replace(/[_-\s]/g, '') on the type names of the model
NormalizeType(type) ==
  IF type.t # "str" THEN ""
  ELSE CASE type.s \in {"hardBreak", "hard_break"} -> "hardbreak"
         [] type.s \in {"bulletList", "bullet_list"} -> "bulletlist"
         [] type.s \in {"orderedList", "ordered_list"} -> "orderedlist"
         [] type.s \in {"listItem", "list_item"} -> "listitem"
         [] type.s \in {"horizontalRule", "horizontal_rule"} -> "horizontalrule"
         [] type.s = "Paragraph" -> "paragraph"
         [] OTHER -> type.s

EscapeHtml(value) ==
  LET s == JsString(IF value.t \in {"null", "undef"} THEN Str("") ELSE value)
  IN CASE s = "&" -> "&amp;"
       [] s = "<" -> "&lt;"
       [] s = ">" -> "&gt;"
       [] OTHER -> s

EscapeAttribute(value) ==
  LET s == EscapeHtml(value)
  IN CASE s = "\"" -> "&quot;"
       [] s = "'" -> "&#39;"
       [] OTHER -> s

\* normalizeImageUrls(undefined, fallback)
NormalizeImageUrls(fallback) ==
  IF Truthy(fallback) THEN << fallback >> ELSE << >>

\* marks.reduce is not a function, or mark.type is read of null
MarksRaise(marks) ==
  /\ HasLength(marks)
  /\ \/ ~IsArray(marks)
     \/ \E i \in 1..Len(marks.e) : marks.e[i].t \in {"null", "undef"}

\* one step of the reduce
ApplyMark(rendered, mark) ==
  LET type == NormalizeType(Prop(mark, "type")) IN
  CASE type \in {"bold", "strong"} -> "<b>" \o rendered \o "</b>"
    [] type \in {"italic", "em"} -> "<i>" \o rendered \o "</i>"
    [] type = "underline" -> "<u>" \o rendered \o "</u>"
    [] type \in {"strike", "s"} -> "<s>" \o rendered \o "</s>"
    [] type = "code" -> "<code>" \o rendered \o "</code>"
    [] type = "link" ->
         LET href == Prop(Prop(mark, "attrs"), "href") IN
         IF href.t # "str" \/ Trim(href.s) = "" THEN rendered
         ELSE "<a href=\"" \o EscapeAttribute(href) \o "\">"
              \o rendered \o "</a>"
    [] OTHER -> rendered

RECURSIVE ReduceMarks(_, _, _)
ReduceMarks(rendered, marks, i) ==
  IF i > Len(marks) THEN rendered
  ELSE ReduceMarks(ApplyMark(rendered, marks[i]), marks, i + 1)

\* the text applyMarks returns when it returns
ApplyMarks(text, marks) ==
  IF ~HasLength(marks) \/ ~IsArray(marks) THEN text
  ELSE ReduceMarks(text, marks.e, 1)

RECURSIVE HeadingLevel(_)
\* Number(level) when it lies in 1..6, printed; 2 otherwise
HeadingLevel(level) ==
  CASE level.t = "num" /\ ~level.half /\ level.n \in 1..6 -> ToString(level.n)
    [] level.t = "num" /\ level.half /\ level.n \in 1..5 -> JsString(level)
    [] level.t = "bool" /\ level.b -> "1"
    [] level.t = "str" /\ level.s \in {"1", "2", "3", "4", "5", "6"} -> level.s
    [] level.t = "arr" /\ Len(level.e) = 1
         /\ level.e[1].t \in {"num", "str", "arr"} -> HeadingLevel(level.e[1])
    [] OTHER -> "2"

\* children || '<br>'
OrBreak(children) == IF children = "" THEN "<br>" ELSE children

RenderImage(node) ==
  LET src == Prop(Prop(node, "attrs"), "src")
      fallbackSrc == IF src.t = "str" THEN src ELSE Undefined
      urls == NormalizeImageUrls(fallbackSrc)
      altRaw == Prop(Prop(node, "attrs"), "alt")
      alt == IF altRaw.t = "str"
             THEN " alt=\"" \o EscapeAttribute(altRaw) \o "\"" ELSE ""
  IN IF urls = << >> THEN ""
     ELSE "<img src=\"" \o EscapeAttribute(urls[1]) \o "\"" \o alt \o ">"

RECURSIVE RenderNode(_)
RECURSIVE RenderNodes(_)
RECURSIVE RenderJoin(_, _)
\* nodes.map(renderNode).join('')
RenderJoin(nodes, i) ==
  IF i > Len(nodes) THEN ""
  ELSE RenderNode(nodes[i]) \o RenderJoin(nodes, i + 1)

RenderNodes(nodes) == IF ~IsArray(nodes) THEN "" ELSE RenderJoin(nodes.e, 1)

RenderNode(node) ==
  IF ~Truthy(node) \/ ~IsObjectType(node) THEN ""
  ELSE LET type == NormalizeType(Prop(node, "type"))
           children == RenderNodes(Prop(node, "content"))
       IN CASE type = "doc" -> children
            [] type = "paragraph" -> "<p>" \o OrBreak(children) \o "</p>"
            [] type = "bulletlist" -> "<ul>" \o OrBreak(children) \o "</ul>"
            [] type = "orderedlist" -> "<ol>" \o OrBreak(children) \o "</ol>"
            [] type = "listitem" -> "<li>" \o OrBreak(children) \o "</li>"
            [] type = "blockquote" ->
                 "<blockquote>" \o OrBreak(children) \o "</blockquote>"
            [] type = "hardbreak" -> "<br>"
            [] type \in {"horizontalrule", "delimiter"} -> "<hr>"
            [] type = "heading" ->
                 LET level == HeadingLevel(Prop(Prop(node, "attrs"), "level"))
                 IN "<h" \o level \o ">" \o OrBreak(children)
                    \o "</h" \o level \o ">"
            [] type = "image" -> RenderImage(node)
            [] type = "text" ->
                 ApplyMarks(EscapeHtml(Prop(node, "text")), Prop(node, "marks"))
            [] OTHER -> children

RECURSIVE NodeRaises(_)
\* renderNode throws a TypeError: some text node below has marks that
\* applyMarks cannot reduce
NodeRaises(node) ==
  /\ Truthy(node)
  /\ IsObjectType(node)
  /\ \/ /\ NormalizeType(Prop(node, "type")) = "text"
        /\ MarksRaise(Prop(node, "marks"))
     \/ /\ IsArray(Prop(node, "content"))
        /\ \E i \in 1..Len(Prop(node, "content").e) :
             NodeRaises(Prop(node, "content").e[i])

\* the nodes proseMirrorToHtml renders: the array itself or input.content
RenderRoot(input) ==
  IF IsArray(input) THEN input
  ELSE IF Truthy(input) /\ IsArray(Prop(input, "content"))
  THEN Prop(input, "content")
  ELSE Undefined

ProseMirrorRaises(input) ==
  /\ IsArray(RenderRoot(input))
  /\ \E i \in 1..Len(RenderRoot(input).e) : NodeRaises(RenderRoot(input).e[i])

\* the HTML proseMirrorToHtml returns when it returns
ProseMirrorToHtml(input) == RenderNodes(RenderRoot(input))

(***************************************************************************)
(* HexNovels.parseChapter after a successful fetch.  The page is given by  *)
(* its #it-astro-state element, its window["current-chapter"] script and   *)
(* the HTML of the first match of each content selector.                   *)
(***************************************************************************)
\* getAstroValueByKey as a function of the table and the key
GetAstroValueByKey(tbl, k) ==
  LET idx == FindIndex(tbl, k) IN
  IF NoSlotAfter(tbl, idx) THEN Null ELSE FreshResolve(tbl, tbl[idx + 2])

ChapterKey == "reader-current-chapter"

HtmlLimit == 100

ContentSelectors ==
  << ".chapter-content", ".reader-content", ".prose", "[class*=\"content\"]",
     "article", "main" >>

TextNode(text) == Obj(<< <<"type", Str("text")>>, <<"text", Str(text)>> >>)

MarkedNode(text, marks) ==
  Obj(<< <<"type", Str("text")>>, <<"text", Str(text)>>, <<"marks", marks>> >>)

Block(type, children) ==
  Obj(<< <<"type", Str(type)>>, <<"content", Arr(children)>> >>)

\* rich-text documents: rendering to HTML, to blank text, or not at all
RichTexts ==
  { Block("doc", << Block("paragraph", << TextNode("a") >>) >>),
    Block("doc", << Block("Paragraph", << >>),
                    Obj(<< <<"type", Str("hard_break")>> >>) >>),
    Block("doc", << Obj(<< <<"type", Str("heading")>>,
                           <<"attrs", Obj(<< <<"level", Str("3")>> >>)>>,
                           <<"content", Arr(<< TextNode("<") >>)>> >>) >>),
    Block("doc", << MarkedNode("a", Arr(<<
                      Obj(<< <<"type", Str("bold")>> >>),
                      Obj(<< <<"type", Str("link")>>,
                             <<"attrs", Obj(<< <<"href", Str("u")>> >>)>> >>)
                    >>)) >>),
    Block("doc", << Obj(<< <<"type", Str("image")>>,
                           <<"attrs", Obj(<< <<"src", Str("u")>>,
                                             <<"alt", Str("'")>> >>)>> >>) >>),
    Block("doc", << TextNode(" "), Null, TextNode(" ") >>),
    Block("doc", << Obj(<< <<"type", Str("image")>> >>) >>),
    Block("doc", << MarkedNode("a", Str("bold")) >>),
    Block("doc", << Block("paragraph", <<
                      MarkedNode("a", Arr(<< Null >>)) >>) >>),
    Arr(<< Block("list_item", << TextNode("a") >>) >>),
    Arr(<< >>),
    Obj(<< <<"type", Str("doc")>> >>) }

\* tables with the chapter inline, behind references, and without one
ChapterTables ==
  { << Str(ChapterKey), Obj(<< <<"content", c>> >>) >> :
      c \in { Str(""), Str(" "), Str("text"), Str(" a "), Null, Bool(TRUE),
               Num(7) } \cup RichTexts }
    \cup { << Str(ChapterKey), Num(2), Obj(<< <<"content", Num(3)>> >>),
              Str("text") >>,
           << Str(ChapterKey), Num(2), Obj(<< <<"content", Num(3)>> >>),
              Block("doc", << Block("paragraph", << Num(0) >>) >>) >>,
           << Str(ChapterKey), Obj(<< <<"id", Str("c1")>> >>) >>,
           << Str(ChapterKey), Str("text") >>,
           << Str(ChapterKey), Null >>,
           << Str("k"), Null >>,
           << Null, Str(ChapterKey) >>,
           << >> }

ChapterStates ==
  { [el |-> FALSE, text |-> NoText],
    [el |-> TRUE, text |-> NoText],
    [el |-> TRUE, text |-> JunkText],
    [el |-> TRUE, text |-> JsonText(Obj(<< <<"content", Str("text")>> >>))] }
    \cup { [el |-> TRUE, text |-> JsonText(Arr(t))] : t \in ChapterTables }

\* body.match(/window\["current-chapter"\]\s*=\s*(\{...\});?\s*<\/script>/):
\* no match, or the matched text, which is the JSON of an object or not JSON
NoMatch == [k |-> "none"]

LegacyScripts ==
  { NoMatch, JunkText }
    \cup { JsonText(Obj(p)) :
             p \in { << >>,
                     << <<"content", Str("")>> >>,
                     << <<"content", Str(" ")>> >>,
                     << <<"content", Str("old")>> >>,
                     << <<"content", Null>> >>,
                     << <<"content", Num(5)>> >>,
                     << <<"content", Arr(<< Str("old") >>)>> >> } }

RECURSIVE Filler(_, _)
Filler(ch, n) == IF n = 0 THEN "" ELSE ch \o Filler(ch, n - 1)

\* loadedCheerio(selector).first().html() for the i-th selector: null
\* without a match, else HTML of a length at or just over the limit
FirstHtml(i) ==
  {Null} \cup { Str(Filler(<< "c", "r", "p", "x", "a", "m" >>[i], n)) :
                  n \in {HtmlLimit, HtmlLimit + 1} }

\* a match of .chapter-content or .reader-content is also one of
\* [class*="content"]
SelectorHtml ==
  { h \in { << h1, h2, h3, h4, h5, h6 >> :
              h1 \in FirstHtml(1), h2 \in FirstHtml(2), h3 \in FirstHtml(3),
              h4 \in FirstHtml(4), h5 \in FirstHtml(5), h6 \in FirstHtml(6) } :
      (h[1] # Null \/ h[2] # Null) => h[4] # Null }

Ret(s) == [k |-> "return", v |-> s]

Raised == [k |-> "throw"]

\* oldChapterData.content?.trim() inside the try: a truthy trimmed text
LegacyQualifies(script) ==
  /\ script # NoMatch
  /\ JsonParse(script).ok
  /\ Prop(JsonParse(script).v, "content").t = "str"
  /\ Trim(Prop(JsonParse(script).v, "content").s) # ""

\* a selector that also takes HTML of exactly the limit
SelectorQualifiesAtLimit(content) ==
  Truthy(content) /\ Len(content.s) >= HtmlLimit

\* content && content.length > 100
SelectorQualifies(content) ==
  Truthy(content) /\ Len(content.s) > HtmlLimit

RECURSIVE FromSelectors(_, _)
FromSelectors(html, i) ==
  IF i > Len(ContentSelectors) THEN Ret("")
  ELSE IF SelectorQualifies(html[i]) THEN Ret(html[i].s)
  ELSE FromSelectors(html, i + 1)

FromLegacy(page) ==
  IF LegacyQualifies(page.legacy)
  THEN Ret(Prop(JsonParse(page.legacy).v, "content").s)
  ELSE FromSelectors(page.html, 1)

\* getAstroValueByKey(astroState, k), or null without a table
Decoded(page, k) ==
  LET astroState == ExtractAstroState(page.state) IN
  IF astroState.k = "table" THEN GetAstroValueByKey(astroState.v, k)
  ELSE Null

ParseChapter(page) ==
  LET content == Prop(Decoded(page, ChapterKey), "content") IN
  IF ~Truthy(content) THEN FromLegacy(page)
  ELSE IF content.t = "str" /\ Trim(content.s) # ""
  THEN Ret(content.s)
  ELSE IF ~IsObjectType(content) THEN FromLegacy(page)
  ELSE IF ProseMirrorRaises(content) THEN Raised
  ELSE IF Trim(ProseMirrorToHtml(content)) # ""
  THEN Ret(ProseMirrorToHtml(content))
  ELSE FromLegacy(page)

ChapterInit ==
  /\ DecoderIdle
  /\ NoInstance
  /\ inp \in [ state : ChapterStates, legacy : LegacyScripts,
              html : SelectorHtml ]
  /\ out = Pending

Chapter ==
  /\ out = Pending
  /\ out' = ParseChapter(inp)
  /\ UNCHANGED inp
  /\ UNCHANGED << dvars, ivars >>

ChapterSpec == ChapterInit /\ [][Chapter]_vars

(***************************************************************************)
(* C15: parseChapter returns the first source that qualifies, in the       *)
(* order (1) the decoded content when it is a non-blank string, (2) its    *)
(* rendering when it is an object and the rendering is not blank, (3) the  *)
(* content of the legacy script when that parses and is not blank, (4) the *)
(* first selector in the listed order whose HTML is longer than 100        *)
(* characters, (5) the empty string.  An absent table, an absent key and a *)
(* legacy script that does not parse only move on to the next source:      *)
(* nothing is raised unless the rendering of an object content raises.     *)
(***************************************************************************)
C15_Decoded ==
  IF inp.state.el /\ inp.state.text.k = "json" /\ IsArray(inp.state.text.doc)
       /\ HasKey(inp.state.text.doc.e, ChapterKey)
       /\ FindIndex(inp.state.text.doc.e, ChapterKey) + 1
            < Len(inp.state.text.doc.e)
  THEN Prop(FreshResolve(inp.state.text.doc.e,
              inp.state.text.doc.e[FindIndex(inp.state.text.doc.e,
                                             ChapterKey) + 2]), "content")
  ELSE Undefined

C15_Source1 == C15_Decoded.t = "str" /\ Trim(C15_Decoded.s) # ""

C15_Renders == C15_Decoded.t \in {"obj", "arr"} /\ ~ProseMirrorRaises(C15_Decoded)

C15_Source2 == C15_Renders /\ Trim(ProseMirrorToHtml(C15_Decoded)) # ""

C15_Legacy ==
  IF inp.legacy.k = "json" THEN Prop(inp.legacy.doc, "content") ELSE Undefined

C15_Source3 == C15_Legacy.t = "str" /\ Trim(C15_Legacy.s) # ""

C15_Source4(i) == inp.html[i] # Null /\ Len(inp.html[i].s) > 100

RECURSIVE UpperChar(_, _)
\* the capital of a small Latin letter, any other character as it is
UpperChar(ch, i) ==
  IF i > 26 THEN ch
  ELSE IF SubSeq("abcdefghijklmnopqrstuvwxyz", i, i) = ch
  THEN SubSeq("ABCDEFGHIJKLMNOPQRSTUVWXYZ", i, i)
  ELSE UpperChar(ch, i + 1)

RECURSIVE ToUpperCase(_)
\* s.toUpperCase()
ToUpperCase(s) ==
  IF s = "" THEN ""
  ELSE UpperChar(SubSeq(s, 1, 1), 1) \o ToUpperCase(SubSeq(s, 2, Len(s)))

\* s.replace(/^word\s+/i, '')
DropLeadingWord(s, word) ==
  IF /\ Len(s) > Len(word)
     /\ ToUpperCase(SubSeq(s, 1, Len(word))) = ToUpperCase(word)
     /\ SubSeq(s, Len(word) + 1, Len(word) + 1) = " "
  THEN TrimStart(SubSeq(s, Len(word) + 1, Len(s)))
  ELSE s

\* s.replace(/\s+-\s+word$/i, '')
DropTrailingWord(s, word) ==
  LET n == Len(s) - Len(word)
      beforeWord == IF n >= 0 THEN TrimEnd(SubSeq(s, 1, n)) ELSE ""
      m == Len(beforeWord)
  IN IF /\ n >= 3
        /\ ToUpperCase(SubSeq(s, n + 1, Len(s))) = ToUpperCase(word)
        /\ m < n
        /\ m >= 2
        /\ SubSeq(beforeWord, m, m) = "-"
        /\ SubSeq(beforeWord, m - 1, m - 1) = " "
     THEN TrimEnd(SubSeq(beforeWord, 1, m - 1))
     ELSE s

SanitizeNovelTitle(value) ==
  Trim(DropTrailingWord(
         DropLeadingWord(DropLeadingWord(value, "Novella"), "Chitat novellu"),
         "HexNovels"))

RECURSIVE UntilChar(_, _)
\* the longest prefix of s without the character ch
UntilChar(s, ch) ==
  IF s = "" \/ SubSeq(s, 1, 1) = ch THEN ""
  ELSE SubSeq(s, 1, 1) \o UntilChar(SubSeq(s, 2, Len(s)), ch)

RECURSIVE DropTrailingSlashes(_)
\* s.replace(/\/+$/, '')
DropTrailingSlashes(s) ==
  IF s # "" /\ SubSeq(s, Len(s), Len(s)) = "/"
  THEN DropTrailingSlashes(SubSeq(s, 1, Len(s) - 1))
  ELSE s

RECURSIVE MatchContent(_)
\* cleanPath.match(/\/content\/([^/]+)/)?.[1], '' without a match
MatchContent(s) ==
  IF Len(s) < 10 THEN ""
  ELSE IF SubSeq(s, 1, 9) = "/content/" /\ SubSeq(s, 10, 10) # "/"
  THEN UntilChar(SubSeq(s, 10, Len(s)), "/")
  ELSE MatchContent(SubSeq(s, 2, Len(s)))

ExtractNovelSlug(novelPath) ==
  MatchContent(DropTrailingSlashes(UntilChar(novelPath, "?")))

(***************************************************************************)
(* The field helpers of hexnovels.ts.  A helper that returns a string or   *)
(* undefined returns Str(s) or Undefined here.                             *)
(***************************************************************************)
\* typeof v === 'string' && v.trim().length > 0
IsText(v) == v.t = "str" /\ Trim(v.s) # ""

LocalizedKeys == << "ru", "en", "original", "name" >>

RECURSIVE PickFrom(_, _)
PickFrom(localized, i) ==
  IF i > Len(LocalizedKeys) THEN Undefined
  ELSE IF IsText(Prop(localized, LocalizedKeys[i]))
  THEN Str(Trim(Prop(localized, LocalizedKeys[i]).s))
  ELSE PickFrom(localized, i + 1)

PickLocalizedString(value) ==
  IF IsText(value) THEN Str(Trim(value.s))
  ELSE IF Truthy(value) /\ IsObjectType(value) THEN PickFrom(value, 1)
  ELSE Undefined

\* statusMap[key] || NovelStatus.Unknown, by the name of the enum member
StatusMap(k) ==
  CASE k \in {"ONGOING", "INPROGRESS"} -> Str("NovelStatus.Ongoing")
    [] k \in {"DONE", "COMPLETED"} -> Str("NovelStatus.Completed")
    [] k \in {"HIATUS", "PAUSED"} -> Str("NovelStatus.OnHiatus")
    [] k \in {"CANCELLED", "DROPPED"} -> Str("NovelStatus.Cancelled")
    [] OTHER -> Str("NovelStatus.Unknown")

MapNovelStatus(status) ==
  IF status.t # "str" \/ Trim(status.s) = "" THEN Undefined
  ELSE StatusMap(ToUpperCase(status.s))

\* rating > 5 ? rating / 2 : rating, for ratings whose half is n or n + 1/2
NormalizeRating(rating) ==
  IF rating.t # "num" THEN Undefined
  ELSE IF rating.half \/ rating.n <= 5 THEN rating
  ELSE IF rating.n % 2 = 0 THEN Num(rating.n \div 2)
  ELSE HalfNum(rating.n \div 2)

RECURSIVE FindAuthor(_, _)
\* relations.find(relation => relation.type === 'AUTHOR'): the relation,
\* undefined, or a TypeError on an element that is null
FindAuthor(relations, i) ==
  IF i > Len(relations) THEN [k |-> "return", v |-> Undefined]
  ELSE IF relations[i].t \in {"null", "undef"} THEN [k |-> "throw"]
  ELSE IF Prop(relations[i], "type") = Str("AUTHOR")
  THEN [k |-> "return", v |-> relations[i]]
  ELSE FindAuthor(relations, i + 1)

ExtractAuthorRaises(relations) ==
  /\ HasLength(relations)
  /\ \/ ~IsArray(relations)
     \/ FindAuthor(relations.e, 1).k = "throw"

\* the author extractAuthor returns when it returns
ExtractAuthor(relations) ==
  IF ~HasLength(relations) \/ ExtractAuthorRaises(relations) THEN Undefined
  ELSE LET authorName ==
             Prop(Prop(FindAuthor(relations.e, 1).v, "publisher"), "name")
       IN IF IsText(authorName) THEN Str(Trim(authorName.s)) ELSE Undefined

RECURSIVE LabelNames(_, _)
\* labels.map(...).filter(name => name.length > 0)
LabelNames(labels, i) ==
  IF i > Len(labels) THEN << >>
  ELSE LET name == Prop(labels[i], "name")
           trimmed == IF name.t = "str" THEN Trim(name.s) ELSE ""
       IN (IF trimmed # "" THEN << trimmed >> ELSE << >>)
          \o LabelNames(labels, i + 1)

RECURSIVE JoinWith(_, _, _)
\* names.join(sep)
JoinWith(names, sep, i) ==
  IF i > Len(names) THEN ""
  ELSE (IF i > 1 THEN sep ELSE "") \o names[i] \o JoinWith(names, sep, i + 1)

ExtractGenresRaises(labels) == HasLength(labels) /\ ~IsArray(labels)

\* the genres extractGenres returns when it returns
ExtractGenres(labels) ==
  IF ~HasLength(labels) \/ ~IsArray(labels) THEN Undefined
  ELSE IF LabelNames(labels.e, 1) = << >> THEN Undefined
  ELSE Str(JoinWith(LabelNames(labels.e, 1), ", ", 1))

(***************************************************************************)
(* Numbers of chapters and volumes.  A number is kept as twice its value,  *)
(* so that n + 1/2 is an integer; the numerals of the model are unsigned   *)
(* decimal digits with an optional ".5".                                   *)
(***************************************************************************)
RECURSIVE DigitValue(_, _)
\* the value of a digit, -1 for any other character
DigitValue(ch, i) ==
  IF i > 10 THEN -1
  ELSE IF SubSeq("0123456789", i, i) = ch THEN i - 1
  ELSE DigitValue(ch, i + 1)

RECURSIVE ParseDigits(_, _)
\* the value of a string of digits, -1 when it holds anything else
ParseDigits(s, acc) ==
  IF s = "" THEN acc
  ELSE IF DigitValue(SubSeq(s, 1, 1), 1) = -1 THEN -1
  ELSE ParseDigits(SubSeq(s, 2, Len(s)),
                   10 * acc + DigitValue(SubSeq(s, 1, 1), 1))

NaN == [nan |-> TRUE]

Finite(d) == [nan |-> FALSE, d |-> d]

\* Number(s) of a string
StringToNumber(s) ==
  LET text == Trim(s)
      whole == UntilChar(text, ".")
      rest == SubSeq(text, Len(whole) + 1, Len(text))
  IN IF text = "" THEN Finite(0)
     ELSE IF whole = "" \/ ParseDigits(whole, 0) = -1 THEN NaN
     ELSE IF rest = "" THEN Finite(2 * ParseDigits(whole, 0))
     ELSE IF rest = ".5" THEN Finite(2 * ParseDigits(whole, 0) + 1)
     ELSE NaN

\* Number(v)
ToNumber(v) ==
  CASE v.t = "num" -> Finite(IF v.half THEN 2 * v.n + 1 ELSE 2 * v.n)
    [] v.t = "str" -> StringToNumber(v.s)
    [] v.t = "null" -> Finite(0)
    [] v.t = "bool" -> Finite(IF v.b THEN 2 ELSE 0)
    [] v.t = "arr" -> StringToNumber(JsString(v))
    [] OTHER -> NaN

\* toChapterNumber, as twice the number
ToChapterNumber(value) ==
  IF ToNumber(value).nan THEN 0 ELSE ToNumber(value).d

\* the number whose double is d
FromDouble(d) == IF d % 2 = 0 THEN Num(d \div 2) ELSE HalfNum((d - 1) \div 2)

BuildChapterName(chapter, fallbackNumber) ==
  LET chapterNumber == ToChapterNumber(Prop(chapter, "number"))
      volumeNumber == ToChapterNumber(Prop(chapter, "volume"))
      chapterName == IF Prop(chapter, "name").t = "str"
                     THEN Trim(Prop(chapter, "name").s) ELSE ""
      titleParts ==
        (IF volumeNumber > 0
         THEN << "Tom " \o JsString(FromDouble(volumeNumber)) >> ELSE << >>)
        \o (IF chapterNumber > 0
            THEN << "Glava " \o JsString(FromDouble(chapterNumber)) >>
            ELSE << >>)
        \o (IF chapterName # "" THEN << chapterName >> ELSE << >>)
  IN IF titleParts # << >> THEN JoinWith(titleParts, " - ", 1)
     ELSE "Glava " \o ToString(fallbackNumber)

(***************************************************************************)
(* The chapter list of parseNovel.                                         *)
(***************************************************************************)
\* chapter.branchId || 'default-branch'
BranchOf(chapter) ==
  IF Truthy(Prop(chapter, "branchId")) THEN Prop(chapter, "branchId")
  ELSE Str("default-branch")

RECURSIVE BranchOrder(_, _, _)
\* the keys of chaptersByBranch in insertion order
BranchOrder(chaptersData, i, acc) ==
  IF i > Len(chaptersData) THEN acc
  ELSE BranchOrder(chaptersData, i + 1,
         IF \E j \in 1..Len(acc) : acc[j] = BranchOf(chaptersData[i])
         THEN acc ELSE Append(acc, BranchOf(chaptersData[i])))

RECURSIVE BranchChapters(_, _, _)
\* chaptersByBranch.get(branchId)
BranchChapters(chaptersData, branchId, i) ==
  IF i > Len(chaptersData) THEN << >>
  ELSE (IF BranchOf(chaptersData[i]) = branchId
        THEN << chaptersData[i] >> ELSE << >>)
       \o BranchChapters(chaptersData, branchId, i + 1)

RECURSIVE LargestBranchLast(_, _, _, _)
\* a forEach that also takes a branch of the same length
LargestBranchLast(chaptersData, branches, i, largest) ==
  IF i > Len(branches) THEN largest
  ELSE LargestBranchLast(chaptersData, branches, i + 1,
         IF Len(BranchChapters(chaptersData, branches[i], 1)) >= Len(largest)
         THEN BranchChapters(chaptersData, branches[i], 1) ELSE largest)

RECURSIVE LargestBranch(_, _, _, _)
\* the forEach that keeps a branch only when it is strictly longer
LargestBranch(chaptersData, branches, i, largest) ==
  IF i > Len(branches) THEN largest
  ELSE LargestBranch(chaptersData, branches, i + 1,
         IF Len(BranchChapters(chaptersData, branches[i], 1)) > Len(largest)
         THEN BranchChapters(chaptersData, branches[i], 1) ELSE largest)

RECURSIVE InsertSorted(_, _, _)
\* the place of a chapter behind every chapter whose number is not larger
InsertSorted(sorted, chapter, i) ==
  IF i > Len(sorted)
       \/ ToChapterNumber(Prop(sorted[i], "number"))
            > ToChapterNumber(Prop(chapter, "number"))
  THEN SubSeq(sorted, 1, i - 1) \o << chapter >>
       \o SubSeq(sorted, i, Len(sorted))
  ELSE InsertSorted(sorted, chapter, i + 1)

RECURSIVE SortChapters(_, _, _)
\* [...largestBranch].sort(by number): the sort is stable
SortChapters(branch, i, sorted) ==
  IF i > Len(branch) THEN sorted
  ELSE SortChapters(branch, i + 1, InsertSorted(sorted, branch[i], 1))

SortedChapters(chaptersData) ==
  SortChapters(LargestBranch(chaptersData,
                             BranchOrder(chaptersData, 1, << >>), 1, << >>),
               1, << >>)

\* dayjs(createdAt).format('LLL'), left to the library
ReleaseTime(createdAt) ==
  IF Truthy(createdAt)
  THEN [t |-> "date", format |-> "LLL", of |-> createdAt] ELSE Undefined

ChapterItem(chapter, index, slug, novelPath) ==
  [ name |-> BuildChapterName(chapter, index),
    path |-> IF slug # ""
             THEN "/content/" \o slug \o "/" \o Trim(Prop(chapter, "id").s)
             ELSE DropTrailingSlashes(novelPath) \o "/"
                  \o Trim(Prop(chapter, "id").s),
    releaseTime |-> ReleaseTime(Prop(chapter, "createdAt")),
    chapterNumber |->
      IF ToChapterNumber(Prop(chapter, "number")) # 0
      THEN FromDouble(ToChapterNumber(Prop(chapter, "number")))
      ELSE Num(index) ]

RECURSIVE ChapterItems(_, _, _, _)
\* sortedChapters.forEach((chapter, index) => ...), index + 1 written i
ChapterItems(sorted, i, slug, novelPath) ==
  IF i > Len(sorted) THEN << >>
  ELSE (IF IsText(Prop(sorted[i], "id"))
        THEN << ChapterItem(sorted[i], i, slug, novelPath) >> ELSE << >>)
       \o ChapterItems(sorted, i + 1, slug, novelPath)

\* the chapter block throws a TypeError: forEach on what is no array,
\* branchId of null, or trim of an id that is no string
ChaptersRaise(chaptersData) ==
  /\ HasLength(chaptersData)
  /\ \/ ~IsArray(chaptersData)
     \/ \E i \in 1..Len(chaptersData.e) :
          chaptersData.e[i].t \in {"null", "undef"}
     \/ \E i \in 1..Len(SortedChapters(chaptersData.e)) :
          Prop(SortedChapters(chaptersData.e)[i], "id").t
            \notin {"null", "undef", "str"}

(***************************************************************************)
(* HexNovels.parseNovel after a successful fetch.  The page is given by    *)
(* its path, its #it-astro-state element and the markup the defaults come  *)
(* from: the text of h1 and title, the content of three meta elements.     *)
(***************************************************************************)
BookKey == "current-book"

ChaptersKey == "current-book-chapters"

DefaultCover == "defaultCover"

\* a property of a JSON object text, left out when the value is undefined
Field(k, v) == IF v = Undefined THEN << >> ELSE << <<k, v>> >>

Author(name) ==
  Obj(<< <<"type", Str("AUTHOR")>>,
         <<"publisher", Obj(<< <<"name", Str(name)>> >>)>> >>)

Label(name) == Obj(<< <<"name", Str(name)>> >>)

\* the decoded book: every combination of a few values of each field, or
\* no object at all
Books ==
  { Obj(Field("name", n) \o Field("description", d) \o Field("poster", p)
        \o Field("status", s) \o Field("relations", r) \o Field("labels", l)
        \o Field("averageRating", a)) :
      n \in { Undefined, Str(" N "),
               Obj(<< <<"ru", Str(" ")>>, <<"en", Str("E")>> >>) },
      d \in { Undefined, Str("D") },
      p \in { Undefined, Str(" P "), Str(" "), Bool(TRUE) },
      s \in { Undefined, Str("done"), Str(" done") },
      r \in { Undefined,
               Arr(<< Obj(<< <<"type", Str("ARTIST")>> >>), Author(" A "),
                      Null >>),
               Arr(<< Null, Author("A") >>),
               Str("x") },
      l \in { Undefined, Arr(<< Label(" G1 "), Null, Label("G2") >>),
               Arr(<< Label(" ") >>), Str("x") },
      a \in { Undefined, Num(9), Str("5") } }
    \cup { Null, Str("x") }

BookChapter(id, number, branchId) ==
  Obj(Field("id", id) \o Field("number", number)
      \o Field("branchId", branchId))

\* what the table holds under the chapters key
ChapterLists ==
  { Arr(<< >>), Str("x"), Null, Obj(<< <<"length", Bool(TRUE)>> >>),
    Arr(<< Null >>),
    Arr(<< BookChapter(Num(7), Undefined, Undefined) >>),
    Arr(<< BookChapter(Undefined, Undefined, Undefined), Str("x") >>),
    Arr(<< BookChapter(Str("b"), Str("2"), Str("B1")),
           BookChapter(Str("z"), Num(9), Str("B2")),
           BookChapter(Str(" a "), HalfNum(1), Str("B1")),
           BookChapter(Str("c"), Str("x"), Str("B1")) >>),
    Arr(<< Obj(<< <<"id", Str("a")>>, <<"name", Str(" One ")>>,
                  <<"volume", Str("1")>>, <<"createdAt", Str("d")>> >>),
           BookChapter(Str("b"), Undefined, Str("default-branch")) >>),
    Arr(<< BookChapter(Str("a"), Str("1"), Str("B1")),
           BookChapter(Str("b"), Str("2"), Str("B2")),
           BookChapter(Str("c"), Str("3"), Str("B2")),
           BookChapter(Str("d"), Str("4"), Str("B1")) >>),
    Arr(<< BookChapter(Str("a"), Str("1"), Undefined),
           BookChapter(Str("b"), Str("2"), Str("B1")),
           BookChapter(Str("c"), Str("3"), Str("default-branch")),
           BookChapter(Str("d"), Str("4"), Str("")),
           BookChapter(Str("e"), Str("5"), Str("B1")) >>),
    Arr(<< BookChapter(Str("p"), Undefined, Undefined),
           BookChapter(Str("q"), Str("0"), Undefined),
           BookChapter(Str("r"), Str("1"), Undefined) >>),
    Arr(<< BookChapter(Str("u"), HalfNum(7), Undefined),
           BookChapter(Str(" "), Str("9"), Undefined),
           BookChapter(Str("v"), Num(8), Undefined),
           BookChapter(Str("w"), Str("7.5"), Undefined) >>) }

\* the decoder's table of a page: the book and the chapters under their keys
NovelTable(book, chaptersData) ==
  (IF book = Undefined THEN << >> ELSE << Str(BookKey), book >>)
  \o (IF chaptersData = Undefined THEN << >>
      ELSE << Str(ChaptersKey), chaptersData >>)

Markups ==
  [ h1 : { "", " H " },
    ogTitle : { Undefined, Str(" OG ") },
    title : { "", "Novella T - HexNovels" },
    description : { Undefined, Str(" S ") },
    ogImage : { Undefined, Str("C") } ]

Page(path, state, markup) ==
  [ path |-> path, state |-> state, h1 |-> markup.h1,
    ogTitle |-> markup.ogTitle, title |-> markup.title,
    description |-> markup.description, ogImage |-> markup.ogImage ]

\* the pages with the given path that differ in the book and the markup
BookPages(path) ==
  { Page(path, s, m) :
      s \in { [el |-> FALSE, text |-> NoText],
               [el |-> TRUE, text |-> JunkText] }
             \cup { [el |-> TRUE,
                     text |-> JsonText(Arr(NovelTable(b, Undefined)))] :
                      b \in Books \cup {Undefined} },
      m \in Markups }

\* the pages without a heading that differ in the chapters
ChapterListPages(paths) ==
  { Page(p, [el |-> TRUE, text |-> JsonText(Arr(NovelTable(b, c)))], m) :
      p \in paths,
      b \in { Undefined, Obj(<< <<"slug", Str("bs")>> >>) },
      c \in ChapterLists,
      m \in { k \in Markups : k.h1 = "" /\ k.ogTitle = Undefined } }

\* attr('content')?.trim()
TrimAttr(v) == IF v.t = "str" THEN Str(Trim(v.s)) ELSE Undefined

\* headingTitle || metaTitle || pageTitle || ''
MarkupName(page) ==
  IF Trim(page.h1) # "" THEN Trim(page.h1)
  ELSE IF Truthy(TrimAttr(page.ogTitle)) THEN TrimAttr(page.ogTitle).s
  ELSE SanitizeNovelTitle(page.title)

\* metaCover || defaultCover
MarkupCover(page) ==
  IF Truthy(TrimAttr(page.ogImage)) THEN TrimAttr(page.ogImage).s
  ELSE DefaultCover

\* bookData.poster?.trim() is called on what is no string
PosterRaises(poster) == poster.t \notin {"null", "undef", "str"}

\* extractNovelSlug(novelPath) || bookData?.slug || '', as it is printed
NovelSlug(page) ==
  IF ExtractNovelSlug(page.path) # "" THEN ExtractNovelSlug(page.path)
  ELSE IF Truthy(Prop(Decoded(page, BookKey), "slug"))
  THEN JsString(Prop(Decoded(page, BookKey), "slug"))
  ELSE ""

\* the novel parseNovel returns when it returns
NovelOf(page) ==
  LET bookData == Decoded(page, BookKey)
      chaptersData == Decoded(page, ChaptersKey)
      poster == Prop(bookData, "poster")
  IN [ path |-> page.path,
       name |-> IF Truthy(bookData)
                     /\ PickLocalizedString(Prop(bookData, "name"))
                          # Undefined
                THEN PickLocalizedString(Prop(bookData, "name"))
                ELSE Str(MarkupName(page)),
       summary |-> IF Truthy(bookData)
                        /\ PickLocalizedString(
                             Prop(bookData, "description")) # Undefined
                   THEN PickLocalizedString(Prop(bookData, "description"))
                   ELSE TrimAttr(page.description),
       cover |-> IF Truthy(bookData) /\ IsText(poster)
                 THEN Str(Trim(poster.s)) ELSE Str(MarkupCover(page)),
       status |-> IF Truthy(bookData)
                  THEN MapNovelStatus(Prop(bookData, "status"))
                  ELSE Undefined,
       author |-> IF Truthy(bookData)
                  THEN ExtractAuthor(Prop(bookData, "relations"))
                  ELSE Undefined,
       genres |-> IF Truthy(bookData)
                  THEN ExtractGenres(Prop(bookData, "labels"))
                  ELSE Undefined,
       rating |-> IF Truthy(bookData)
                  THEN NormalizeRating(Prop(bookData, "averageRating"))
                  ELSE Undefined,
       chapters |-> IF HasLength(chaptersData) /\ IsArray(chaptersData)
                    THEN Arr(ChapterItems(SortedChapters(chaptersData.e), 1,
                                          NovelSlug(page), page.path))
                    ELSE Undefined ]

\* parseNovel throws a TypeError
NovelRaises(page) ==
  \/ /\ Truthy(Decoded(page, BookKey))
     /\ \/ PosterRaises(Prop(Decoded(page, BookKey), "poster"))
        \/ ExtractAuthorRaises(Prop(Decoded(page, BookKey), "relations"))
        \/ ExtractGenresRaises(Prop(Decoded(page, BookKey), "labels"))
  \/ ChaptersRaise(Decoded(page, ChaptersKey))

ParseNovel(page) == IF NovelRaises(page) THEN Raised ELSE Ret(NovelOf(page))

NovelInit ==
  /\ DecoderIdle
  /\ NoInstance
  /\ inp \in BookPages("/content/s1/") \cup ChapterListPages({"/content/s1/", "/n/"})
  /\ out = Pending

Novel ==
  /\ out = Pending
  /\ out' = ParseNovel(inp)
  /\ UNCHANGED inp
  /\ UNCHANGED << dvars, ivars >>

NovelSpec == NovelInit /\ [][Novel]_vars

(***************************************************************************)
(* C16: parseNovel applies the decoded fields as overrides of the markup   *)
(* defaults.  Without a table or without the book key, name, summary and   *)
(* cover are those of the markup and status, author, genres and rating are *)
(* unset.  With book data, a field is overridden when its decoded value is *)
(* non-empty and valid, and keeps the markup default otherwise.  The       *)
(* chapters are set only when the decoded chapters value is a non-empty    *)
(* list.                                                                   *)
(***************************************************************************)
C16_Table ==
  IF inp.state.el /\ inp.state.text.k = "json" /\ IsArray(inp.state.text.doc)
  THEN inp.state.text.doc.e ELSE << >>

C16_Value(k) ==
  IF HasKey(C16_Table, k) /\ FindIndex(C16_Table, k) + 1 < Len(C16_Table)
  THEN FreshResolve(C16_Table, C16_Table[FindIndex(C16_Table, k) + 2])
  ELSE Null

C16_Book == C16_Value(BookKey)

C16_DefaultName ==
  IF Trim(inp.h1) # "" THEN Str(Trim(inp.h1))
  ELSE IF inp.ogTitle # Undefined /\ Trim(inp.ogTitle.s) # ""
  THEN Str(Trim(inp.ogTitle.s))
  ELSE Str(SanitizeNovelTitle(inp.title))

C16_DefaultSummary ==
  IF inp.description = Undefined THEN Undefined
  ELSE Str(Trim(inp.description.s))

C16_DefaultCover ==
  IF inp.ogImage # Undefined /\ Trim(inp.ogImage.s) # ""
  THEN Str(Trim(inp.ogImage.s)) ELSE Str(DefaultCover)

C16_Field(valid, value, default) == IF valid THEN value ELSE default

C16_Overrides ==
  out # Pending =>
    /\ out.k = "return"
    /\ ~IsObject(C16_Book) =>
         /\ out.v.name = C16_DefaultName
         /\ out.v.summary = C16_DefaultSummary
         /\ out.v.cover = C16_DefaultCover
         /\ out.v.status = Undefined
         /\ out.v.author = Undefined
         /\ out.v.genres = Undefined
         /\ out.v.rating = Undefined
    /\ IsObject(C16_Book) =>
         /\ out.v.name =
              C16_Field(PickLocalizedString(Prop(C16_Book, "name")) # Undefined,
                        PickLocalizedString(Prop(C16_Book, "name")),
                        C16_DefaultName)
         /\ out.v.summary =
              C16_Field(
                PickLocalizedString(Prop(C16_Book, "description")) # Undefined,
                PickLocalizedString(Prop(C16_Book, "description")),
                C16_DefaultSummary)
         /\ out.v.cover =
              C16_Field(IsText(Prop(C16_Book, "poster")),
                        Str(Trim(Prop(C16_Book, "poster").s)),
                        C16_DefaultCover)
         /\ IsText(Prop(C16_Book, "status")) <=> out.v.status # Undefined
         /\ Prop(C16_Book, "averageRating").t = "num"
              <=> out.v.rating # Undefined
         /\ ~IsArray(Prop(C16_Book, "relations")) => out.v.author = Undefined
         /\ ~IsArray(Prop(C16_Book, "labels")) => out.v.genres = Undefined
    /\ out.v.chapters # Undefined =>
         /\ IsArray(C16_Value(ChaptersKey))
         /\ C16_Value(ChaptersKey).e # << >>

(***************************************************************************)
(* WebnovelRating.popularNovels (version 1.0.1): the requests one call     *)
(* issues.  A filter value "" stands for a filter that is not given; a     *)
(* stored token "" for csrfToken === null.  The values hold only           *)
(* characters that URLSearchParams leaves as they are.                     *)
(***************************************************************************)
MaxPage == 3

Site == "https://www.webnovel.com"

RankingTypes ==
  { "power_rank", "best_sellers", "collection_rank", "popular_rank",
    "update_rank", "engagement_rank", "fandom_rank" }

TimePeriods == { "monthly", "season", "bi_annual", "annual", "all_time" }

\* timeTypeMap[timePeriod] || '3'
GetTimeTypeValue(timePeriod) ==
  CASE timePeriod \in {"monthly", "season"} -> "4"
    [] timePeriod \in {"bi_annual", "annual"} -> "3"
    [] timePeriod = "all_time" -> "1"
    [] OTHER -> "3"

\* rankNameMap[rankingType] || 'Power'
GetRankName(rankingType) ==
  CASE rankingType = "power_rank" -> "Power"
    [] rankingType = "best_sellers" -> "Trending"
    [] rankingType = "collection_rank" -> "Collect"
    [] rankingType = "popular_rank" -> "Popular"
    [] rankingType = "update_rank" -> "Update"
    [] rankingType = "engagement_rank" -> "Active"
    [] rankingType = "fandom_rank" -> "Fandom"
    [] OTHER -> "Power"

\* value || fallback
OrDefault(value, fallback) == IF value = "" THEN fallback ELSE value

\* the page-1 URL
RankingUrl(rankingType, timePeriod) ==
  IF rankingType = "power_rank" \/ rankingType = "best_sellers"
  THEN Site \o "/ranking/novel/" \o timePeriod \o "/" \o rankingType
  ELSE Site \o "/ranking/novel/all_time/" \o rankingType

\* f holds the filter values after their defaults
\* `${this.site}/go/pcm/category/getRankList?${params.toString()}`
RankListUrl(token, pageNo, f) ==
  Site \o "/go/pcm/category/getRankList?"
    \o "_csrfToken=" \o token
    \o "&pageIndex=" \o ToString(pageNo)
    \o "&rankId=" \o f.rankingType
    \o "&listType=3&type=1"
    \o "&rankName=" \o GetRankName(f.rankingType)
    \o "&timeType=" \o GetTimeTypeValue(f.timePeriod)
    \o "&sourceType=" \o f.sourceType
    \o "&sex=" \o f.sex
    \o "&signStatus=" \o f.signStatus

\* the fetches of one popularNovels call, in order: the ranking page for
\* page 1; else the site (only without a stored token) and getRankList
PopularNovelsRequests(pageNo, filters, stored, fetched) ==
  LET rankingType == OrDefault(filters.ranking_type, "power_rank")
      timePeriod == OrDefault(filters.time_period, "bi_annual")
      sourceType == OrDefault(filters.source_type, "0")
      sex == OrDefault(filters.sex, "1")
      signStatus == OrDefault(filters.sign_status, "0")
      token == IF stored = "" THEN fetched ELSE stored
  IN IF pageNo = 1
     THEN << [url |-> RankingUrl(rankingType, timePeriod), xhr |-> FALSE] >>
     ELSE (IF stored = "" THEN << [url |-> Site, xhr |-> FALSE] >>
           ELSE << >>)
          \o << [url |-> RankListUrl(token, pageNo,
                                     [ rankingType |-> rankingType,
                                       timePeriod |-> timePeriod,
                                       sourceType |-> sourceType,
                                       sex |-> sex,
                                       signStatus |-> signStatus ]),
                 xhr |-> TRUE] >>

\* two calls that differ in the time period only
RankCalls ==
  [ pageNo : 1..MaxPage,
    ranking_type : RankingTypes \cup {""},
    time_period : TimePeriods \cup {""},
    other_period : TimePeriods \cup {""},
    source_type : {"0", "2"},
    sex : {""},
    sign_status : {""},
    csrfToken : {"", "t1"},
    fetched : {"", "t2"} ]

FiltersOf(call, timePeriod) ==
  [ ranking_type |-> call.ranking_type, time_period |-> timePeriod,
    source_type |-> call.source_type, sex |-> call.sex,
    sign_status |-> call.sign_status ]

RankInit ==
  /\ DecoderIdle
  /\ NoInstance
  /\ inp \in RankCalls
  /\ out = Pending

Rank ==
  /\ out = Pending
  /\ out' = [ one |-> PopularNovelsRequests(inp.pageNo,
                        FiltersOf(inp, inp.time_period), inp.csrfToken,
                        inp.fetched),
              other |-> PopularNovelsRequests(inp.pageNo,
                          FiltersOf(inp, inp.other_period), inp.csrfToken,
                          inp.fetched) ]
  /\ UNCHANGED inp
  /\ UNCHANGED << dvars, ivars >>

RankSpec == RankInit /\ [][Rank]_vars

(***************************************************************************)
(* C17: the time period reaches the request only for the Power and         *)
(* Trending rankings: for every other ranking type and every page number,  *)
(* two calls that differ in time_period alone issue the same requests.     *)
(***************************************************************************)
C17_TimePeriodIgnored ==
  (out # Pending /\ inp.ranking_type \notin {"", "power_rank", "best_sellers"})
    => out.one = out.other

\* the same on the first page only
C17_TimePeriodIgnoredPage1 ==
  (/\ out # Pending
   /\ inp.pageNo = 1
   /\ inp.ranking_type \notin {"", "power_rank", "best_sellers"})
    => out.one = out.other

(***************************************************************************)
(* The chapter list of IfreedomPlugin.parseNovel.  The page is given by    *)
(* its .chapterinfo nodes in HTML order: the text of the first link, its   *)
(* href (Undefined without one) and the text of .timechapter; the year is  *)
(* the one new Date() reports.  Month names are written in Latin letters.  *)
(***************************************************************************)
MaxNodes == 3

\* metadata.sourceSite
IfreedomSite == "https://ifreedom.su"

RECURSIVE IndexOf(_, _, _)
\* s.indexOf(pat) counted from 1, 0 when pat does not occur
IndexOf(s, pat, i) ==
  IF i + Len(pat) - 1 > Len(s) THEN 0
  ELSE IF SubSeq(s, i, i + Len(pat) - 1) = pat THEN i
  ELSE IndexOf(s, pat, i + 1)

\* s.includes(pat)
Includes(s, pat) == IndexOf(s, pat, 1) # 0

\* s.replace(pat, ''): the first occurrence only
RemoveFirst(s, pat) ==
  IF ~Includes(s, pat) THEN s
  ELSE SubSeq(s, 1, IndexOf(s, pat, 1) - 1)
       \o SubSeq(s, IndexOf(s, pat, 1) + Len(pat), Len(s))

RECURSIVE Split(_, _)
\* s.split(ch) for a one-character separator
Split(s, ch) ==
  IF ~Includes(s, ch) THEN << s >>
  ELSE << UntilChar(s, ch) >>
       \o Split(SubSeq(s, Len(UntilChar(s, ch)) + 2, Len(s)), ch)

\* parts[i] of a destructuring, '' standing for undefined
Part(parts, i) == IF i <= Len(parts) THEN parts[i] ELSE ""

\* months[month], 0 standing for undefined
Months(month) ==
  CASE month = "yanvarya" -> 1
    [] month = "fevralya" -> 2
    [] month = "marta" -> 3
    [] month = "aprelya" -> 4
    [] month = "maya" -> 5
    [] month = "iyunya" -> 6
    [] month = "iyulya" -> 7
    [] month = "avgusta" -> 8
    [] month = "sentyabrya" -> 9
    [] month = "oktyabrya" -> 10
    [] month = "noyabrya" -> 11
    [] month = "dekabrya" -> 12
    [] OTHER -> 0

\* dayjs(text).format('LL'), left to the library
FormatLL(text) == [t |-> "date", format |-> "LL", of |-> text]

ParseDate(dateString, year) ==
  LET dots == Split(dateString, ".")
      words == Split(dateString, " ")
  IN IF Includes(dateString, ".")
          /\ Part(dots, 1) # "" /\ Part(dots, 2) # "" /\ Part(dots, 3) # ""
     THEN FormatLL(Part(dots, 3) \o "-" \o Part(dots, 2) \o "-"
                   \o Part(dots, 1))
     ELSE IF ~Includes(dateString, ".") /\ Includes(dateString, " ")
               /\ Part(words, 1) # "" /\ Months(Part(words, 2)) # 0
     THEN FormatLL(ToString(year) \o "-" \o ToString(Months(Part(words, 2)))
                   \o "-" \o Part(words, 1))
     ELSE IF dateString # "" THEN Str(dateString) ELSE Null

ChapterNodes ==
  { [name |-> " Ch1 ", href |-> Str("https://ifreedom.su/ch1"),
     date |-> " 01.02.2024 "],
    [name |-> "Ch2", href |-> Str("/ch2"), date |-> "5 maya"],
    [name |-> "Ch3", href |-> Str("/ch3"), date |-> ""],
    [name |-> " ", href |-> Str("/ch4"), date |-> "1.2"],
    [name |-> "Ch5", href |-> Undefined, date |-> "5 may"],
    [name |-> "Ch6", href |-> Str(""), date |-> "today"] }

\* a list that is handed on as it is
SameOrder(s) == s

\* chapters.reverse()
Reverse(s) == [i \in 1..Len(s) |-> s[Len(s) + 1 - i]]

RECURSIVE EachNode(_, _, _)
\* chapterNodes.each((index, el) => ...): index is i - 1
EachNode(nodes, i, year) ==
  IF i > Len(nodes) THEN << >>
  ELSE LET name == Trim(nodes[i].name)
           href == IF Truthy(nodes[i].href) THEN nodes[i].href.s ELSE ""
           dateText == Trim(nodes[i].date)
       IN (IF name = "" \/ href = "" THEN << >>
           ELSE << [ name |-> name,
                     path |-> RemoveFirst(href, IfreedomSite),
                     releaseTime |-> ParseDate(dateText, year),
                     chapterNumber |-> Len(nodes) - (i - 1) ] >>)
          \o EachNode(nodes, i + 1, year)

IfreedomChapters(nodes, year) == Reverse(EachNode(nodes, 1, year))

IfreedomInit ==
  /\ DecoderIdle
  /\ NoInstance
  /\ inp \in [ nodes : UNION { [1..n -> ChapterNodes] : n \in 0..MaxNodes },
              year : {2026} ]
  /\ out = Pending

Ifreedom ==
  /\ out = Pending
  /\ out' = [chapters |-> IfreedomChapters(inp.nodes, inp.year)]
  /\ UNCHANGED inp
  /\ UNCHANGED << dvars, ivars >>

IfreedomSpec == IfreedomInit /\ [][Ifreedom]_vars

(***************************************************************************)
(* C18: the chapters come back in the reverse of their HTML order.  The    *)
(* node at 0-based HTML position k of N nodes has chapterNumber N - k, a   *)
(* node without a name or without an href is left out, every other node is *)
(* returned once, and the numbers of the returned list increase strictly.  *)
(***************************************************************************)
C18_Kept ==
  { k \in 0..(Len(inp.nodes) - 1) :
      /\ Trim(inp.nodes[k + 1].name) # ""
      /\ inp.nodes[k + 1].href # Undefined
      /\ inp.nodes[k + 1].href.s # "" }

C18_Position(i) == Len(inp.nodes) - out.chapters[i].chapterNumber

C18_ReversedNumbered ==
  out # Pending =>
    /\ Len(out.chapters) = Cardinality(C18_Kept)
    /\ { C18_Position(i) : i \in 1..Len(out.chapters) } = C18_Kept
    /\ \A i \in 1..Len(out.chapters) :
         /\ out.chapters[i].chapterNumber \in 1..Len(inp.nodes)
         /\ out.chapters[i].name = Trim(inp.nodes[C18_Position(i) + 1].name)
    /\ \A i \in 1..(Len(out.chapters) - 1) :
         /\ out.chapters[i].chapterNumber < out.chapters[i + 1].chapterNumber
         /\ C18_Position(i) > C18_Position(i + 1)

\* three nodes, the middle one without an href: numbers 1 and 3 come back
C18_Witness ==
  /\ out # Pending
  /\ Len(inp.nodes) = 3
  /\ C18_Kept = {0, 2}
  /\ Len(out.chapters) = 2
  /\ out.chapters[1].chapterNumber = 1
  /\ out.chapters[2].chapterNumber = 3


(***************************************************************************)
(* C21: parseNovel builds the chapter list from exactly one branch.  The   *)
(* decoded chapters are grouped by branchId, a missing branchId counting   *)
(* as 'default-branch'; the group with the most chapters is chosen, a tie  *)
(* is won by the branch met first in the decoded list; the returned list   *)
(* holds the chapters of that branch that have an id and no chapter of any *)
(* other branch.                                                           *)
(***************************************************************************)
C21_Data == C16_Value(ChaptersKey).e

C21_Branch(i) ==
  IF Prop(C21_Data[i], "branchId") \in { Undefined, Null, Str("") }
  THEN "default-branch" ELSE Prop(C21_Data[i], "branchId").s

C21_Branches == { C21_Branch(i) : i \in 1..Len(C21_Data) }

C21_Size(b) == Cardinality({ i \in 1..Len(C21_Data) : C21_Branch(i) = b })

C21_First(b) ==
  CHOOSE i \in 1..Len(C21_Data) :
    C21_Branch(i) = b /\ \A j \in 1..(i - 1) : C21_Branch(j) # b

C21_Wins(b, c) ==
  \/ C21_Size(b) > C21_Size(c)
  \/ C21_Size(b) = C21_Size(c) /\ C21_First(b) < C21_First(c)

C21_Chosen ==
  CHOOSE b \in C21_Branches : \A c \in C21_Branches \ {b} : C21_Wins(b, c)

C21_HasId(i) ==
  Prop(C21_Data[i], "id").t = "str" /\ Trim(Prop(C21_Data[i], "id").s) # ""

C21_PathOf(i) ==
  (IF NovelSlug(inp) # "" THEN "/content/" \o NovelSlug(inp)
   ELSE DropTrailingSlashes(inp.path))
  \o "/" \o Trim(Prop(C21_Data[i], "id").s)

C21_Listed ==
  out # Pending /\ out.k = "return" /\ out.v.chapters # Undefined

C21_OneBranch ==
  C21_Listed =>
    /\ { out.v.chapters.e[n].path : n \in 1..Len(out.v.chapters.e) }
         = { C21_PathOf(i) :
               i \in { j \in 1..Len(C21_Data) :
                         C21_Branch(j) = C21_Chosen /\ C21_HasId(j) } }
    /\ Len(out.v.chapters.e)
         = Cardinality({ j \in 1..Len(C21_Data) :
                           C21_Branch(j) = C21_Chosen /\ C21_HasId(j) })

\* a returned list where a later branch of the same size, with ids, lost
C21_Witness ==
  /\ C21_Listed
  /\ Len(out.v.chapters.e) > 1
  /\ \E c \in C21_Branches \ {C21_Chosen} :
       /\ C21_Size(c) = C21_Size(C21_Chosen)
       /\ \E i \in 1..Len(C21_Data) : C21_Branch(i) = c /\ C21_HasId(i)

(***************************************************************************)
(* C22: the chapter list parseNovel returns is ordered by ascending        *)
(* chapter number.  Chapters without a non-blank id are omitted, and the   *)
(* chapterNumber values of the returned list are non-decreasing from first *)
(* to last, also when a chapter with a missing, zero or non-numeric number *)
(* receives its 1-based position in the sorted branch as its number.       *)
(***************************************************************************)
\* twice a number value, which is an integer for wholes and halves
C22_Twice(v) == 2 * v.n + (IF v.half THEN 1 ELSE 0)

C22_Omitted ==
  Len(out.v.chapters.e)
    = Cardinality({ j \in 1..Len(C21_Data) :
                      C21_Branch(j) = C21_Chosen /\ C21_HasId(j) })

C22_NonDecreasing ==
  \A n \in 1..(Len(out.v.chapters.e) - 1) :
    C22_Twice(out.v.chapters.e[n].chapterNumber)
      <= C22_Twice(out.v.chapters.e[n + 1].chapterNumber)

C22_Ascending == C21_Listed => C22_Omitted /\ C22_NonDecreasing

\* some chapter of the chosen branch receives the fallback number
C22_Fallback ==
  \E j \in 1..Len(C21_Data) :
    C21_Branch(j) = C21_Chosen
      /\ ToChapterNumber(Prop(C21_Data[j], "number")) = 0

\* C22 where every chapter of the chosen branch has a number of its own
C22_AscendingNumbered ==
  C21_Listed /\ ~C22_Fallback => C22_Omitted /\ C22_NonDecreasing

\* C22 for the fallback alone: it is given, and the ids decide who is listed
C22_FallbackGiven ==
  C21_Listed /\ C22_Fallback =>
    /\ C22_Omitted
    /\ \A n \in 1..Len(out.v.chapters.e) :
         C22_Twice(out.v.chapters.e[n].chapterNumber) > 0

(***************************************************************************)
(* WebnovelRating (v1.0.1): the CSRF token of one plugin instance over     *)
(* its popularNovels calls.  csrfToken is the private field; running[c]    *)
(* is the c-th call: the await it stands at, its page, the number of its   *)
(* fetches of the site for a token, what its own page or site response     *)
(* held, the tokens of its getRankList requests, and the token stored and  *)
(* the calls in flight when it began.  Every fetch succeeds.               *)
(***************************************************************************)
MaxRuns == 3

MaxFlight == 2

CsrfName == "_csrfToken"

RECURSIVE RunWithout(_, _)
\* the longest prefix of s without a character of stops: [^stops]*
RunWithout(s, stops) ==
  IF s = "" \/ SubSeq(s, 1, 1) \in stops THEN ""
  ELSE SubSeq(s, 1, 1) \o RunWithout(SubSeq(s, 2, Len(s)), stops)

RECURSIVE MatchAssigned(_, _, _)
\* text.match(/_csrfToken=([^stops]+)/): the group of the first match
MatchAssigned(text, stops, i) ==
  LET pat == CsrfName \o "="
      from == i + Len(pat)
  IN IF from - 1 > Len(text) THEN Null
     ELSE IF SubSeq(text, i, from - 1) = pat
               /\ RunWithout(SubSeq(text, from, Len(text)), stops) # ""
     THEN Str(RunWithout(SubSeq(text, from, Len(text)), stops))
     ELSE MatchAssigned(text, stops, i + 1)

Quotes == { "'", "\"" }

\* what follows the name in /_csrfToken['"]\s*:\s*['"]([^'"]+)['"]/
QuotedValue(rest) ==
  LET colon == TrimStart(SubSeq(rest, 2, Len(rest)))
      open == TrimStart(SubSeq(colon, 2, Len(colon)))
      value == RunWithout(SubSeq(open, 2, Len(open)), Quotes)
  IN IF /\ rest # "" /\ SubSeq(rest, 1, 1) \in Quotes
        /\ colon # "" /\ SubSeq(colon, 1, 1) = ":"
        /\ open # "" /\ SubSeq(open, 1, 1) \in Quotes
        /\ value # "" /\ Len(open) > Len(value) + 1
     THEN Str(value) ELSE Null

RECURSIVE MatchQuoted(_, _)
\* body.match(/_csrfToken['"]\s*:\s*['"]([^'"]+)['"]/): the group
MatchQuoted(body, i) ==
  IF i + Len(CsrfName) - 1 > Len(body) THEN Null
  ELSE IF SubSeq(body, i, i + Len(CsrfName) - 1) = CsrfName
            /\ QuotedValue(SubSeq(body, i + Len(CsrfName), Len(body))) # Null
  THEN QuotedValue(SubSeq(body, i + Len(CsrfName), Len(body)))
  ELSE MatchQuoted(body, i + 1)

\* the escapes of the characters that occur in the pages of the model
Escapes == [ e \in { "31", "32", "26", "3B" } |->
             CASE e = "31" -> "1" [] e = "32" -> "2"
               [] e = "26" -> "&" [] e = "3B" -> ";" ]

RECURSIVE DecodeURIComponent(_)
\* the decoded text, or a URIError on a % that starts no escape
DecodeURIComponent(s) ==
  IF s = "" THEN Ret("")
  ELSE IF SubSeq(s, 1, 1) # "%"
  THEN LET rest == DecodeURIComponent(SubSeq(s, 2, Len(s)))
       IN IF rest = Raised THEN Raised ELSE Ret(SubSeq(s, 1, 1) \o rest.v)
  ELSE IF Len(s) < 3 \/ SubSeq(s, 2, 3) \notin DOMAIN Escapes THEN Raised
  ELSE LET rest == DecodeURIComponent(SubSeq(s, 4, Len(s)))
       IN IF rest = Raised THEN Raised
          ELSE Ret(Escapes[SubSeq(s, 2, 3)] \o rest.v)

\* result.headers.get('set-cookie') || ''
Cookies ==
  { "", "sid=1; path=/", "_csrfToken=t1; path=/", "a=b; _csrfToken=t2",
    "_csrfToken=; sid=1" }

\* the text of the site's front page
SiteBodies ==
  { "", "{'_csrfToken' : 't2'}", "{\"_csrfToken\":\"t1\"}", "_csrfToken=t1",
    "'_csrfToken':''" }

\* the text of a ranking page
RankingBodies ==
  { "", "<a href='/x?_csrfToken=t1&y=1'>", "_csrfToken=t%32;", "_csrfToken=%zz'",
    "\"_csrfToken\":\"t1\"", "_csrfToken=&" }

\* cookies.match(/_csrfToken=([^;]+)/)
CookieMatch(cookies) == MatchAssigned(cookies, { ";" }, 1)

\* body.match(/_csrfToken=([^;'"&]+)/)
PageMatch(body) == MatchAssigned(body, { ";", "'", "\"", "&" }, 1)

\* if (tokenMatch) this.csrfToken = decodeURIComponent(tokenMatch[1])
StoreNullWhenAbsent(token, body) ==
  IF PageMatch(body) = Null THEN Null
  ELSE Str(DecodeURIComponent(PageMatch(body).s).v)

StoreFromPage(token, body) ==
  IF PageMatch(body) = Null THEN token
  ELSE Str(DecodeURIComponent(PageMatch(body).s).v)

\* decodeURIComponent throws
PageRaises(body) ==
  PageMatch(body) # Null /\ DecodeURIComponent(PageMatch(body).s) = Raised

NoCall ==
  [ pc |-> "idle", pageNo |-> 0, fetches |-> 0, found |-> Undefined,
    sent |-> << >>, stored |-> Undefined, beside |-> {} ]

InFlight(c) == running[c].pc \notin { "idle", "done", "raised" }

\* fetchApi(apiUrl) with _csrfToken: this.csrfToken || ''
SendRankList(call, token) ==
  [ call EXCEPT !.pc = "rankList",
                !.sent = Append(@, IF Truthy(token) THEN token ELSE Str("")) ]

\* the first statement of getCsrfToken, up to its fetch of the site
GetCsrfToken(call, token) ==
  IF Truthy(token) THEN [ call EXCEPT !.pc = "resume" ]
  ELSE [ call EXCEPT !.pc = "site", !.fetches = @ + 1 ]

\* a new instance on which n calls are going to be made
InstanceInit(n) ==
  /\ DecoderIdle
  /\ inp = Null
  /\ out = Null
  /\ csrfToken = Null
  /\ running = [ c \in 1..n |-> NoCall ]

\* popularNovels(pageNo, ...) up to its first await, with fewer than limit
\* calls in flight
PopularNovels(c, pageNo, limit) ==
  /\ running[c].pc = "idle"
  /\ \A d \in 1..(c - 1) : running[d].pc # "idle"
  /\ Cardinality({ d \in DOMAIN running : InFlight(d) }) < limit
  /\ LET call == [ running[c] EXCEPT
                     !.pageNo = pageNo, !.stored = csrfToken,
                     !.beside = { d \in DOMAIN running : InFlight(d) } ]
     IN running' = [ running EXCEPT ![c] =
          IF pageNo = 1 THEN [ call EXCEPT !.pc = "ranking" ]
          ELSE IF ~Truthy(csrfToken) THEN GetCsrfToken(call, csrfToken)
          ELSE SendRankList(call, csrfToken) ]
  /\ UNCHANGED << csrfToken, dvars, fvars >>

\* page 1: await fetchApi(url)
RankingResponse(c) ==
  /\ running[c].pc = "ranking"
  /\ running' = [ running EXCEPT ![c].pc = "pageText" ]
  /\ UNCHANGED << csrfToken, dvars, fvars >>

\* page 1: await result.text(), the token of the page, the novels returned
PageText(c, body) ==
  /\ running[c].pc = "pageText"
  /\ IF PageRaises(body)
     THEN /\ running' = [ running EXCEPT ![c].pc = "raised" ]
          /\ UNCHANGED csrfToken
     ELSE /\ csrfToken' = StoreFromPage(csrfToken, body)
          /\ running' = [ running EXCEPT
               ![c].pc = "done",
               ![c].found = IF PageMatch(body) = Null THEN Null
                            ELSE StoreFromPage(csrfToken, body) ]
  /\ UNCHANGED << dvars, fvars >>

\* getCsrfToken: await fetchApi(this.site), the token of the cookies
SiteResponse(c, cookies) ==
  /\ running[c].pc = "site"
  /\ IF CookieMatch(cookies) # Null
     THEN /\ csrfToken' = CookieMatch(cookies)
          /\ running' = [ running EXCEPT ![c].pc = "resume",
                                         ![c].found = CookieMatch(cookies) ]
     ELSE /\ running' = [ running EXCEPT ![c].pc = "siteText" ]
          /\ UNCHANGED csrfToken
  /\ UNCHANGED << dvars, fvars >>

\* getCsrfToken: await result.text(), the token of the body or ''
SiteText(c, body) ==
  /\ running[c].pc = "siteText"
  /\ csrfToken' = IF MatchQuoted(body, 1) # Null THEN MatchQuoted(body, 1)
                  ELSE csrfToken
  /\ running' = [ running EXCEPT ![c].pc = "resume",
                                 ![c].found = MatchQuoted(body, 1) ]
  /\ UNCHANGED << dvars, fvars >>

\* after await this.getCsrfToken(): the parameters and fetchApi(apiUrl)
Resume(c) ==
  /\ running[c].pc = "resume"
  /\ running' = [ running EXCEPT ![c] = SendRankList(@, csrfToken) ]
  /\ UNCHANGED << csrfToken, dvars, fvars >>

\* await fetchApi(apiUrl)
RankListResponse(c) ==
  /\ running[c].pc = "rankList"
  /\ running' = [ running EXCEPT ![c].pc = "json" ]
  /\ UNCHANGED << csrfToken, dvars, fvars >>

\* await result.json(), the novels returned
RankListJson(c) ==
  /\ running[c].pc = "json"
  /\ running' = [ running EXCEPT ![c].pc = "done" ]
  /\ UNCHANGED << csrfToken, dvars, fvars >>

\* the calls of one instance with at most limit of them in flight
Calls(limit) ==
  \E c \in DOMAIN running :
    \/ \E pageNo \in 1..MaxPage : PopularNovels(c, pageNo, limit)
    \/ RankingResponse(c)
    \/ \E body \in RankingBodies : PageText(c, body)
    \/ \E cookies \in Cookies : SiteResponse(c, cookies)
    \/ \E body \in SiteBodies : SiteText(c, body)
    \/ Resume(c)
    \/ RankListResponse(c)
    \/ RankListJson(c)

\* MaxRuns calls, one after the other
SequenceSpec == InstanceInit(MaxRuns) /\ [][Calls(1)]_vars

\* MaxFlight calls that interleave at their awaits
FlightSpec == InstanceInit(MaxFlight) /\ [][Calls(MaxFlight)]_vars

(***************************************************************************)
(* C23: over any sequence of popularNovels calls on one instance, a        *)
(* non-empty csrfToken never reverts to null or empty, and a stored token  *)
(* is replaced only by a page-1 call that finds a token in its page;       *)
(* the site is fetched for a token only while no token is stored, by a     *)
(* call for a page > 1, and at most once by a call; such a call then       *)
(* issues exactly one getRankList request, which carries the stored token, *)
(* or an empty token when its fetch found none.                            *)
(***************************************************************************)
C23_Kept ==
  /\ Truthy(csrfToken) => Truthy(csrfToken')
  /\ Truthy(csrfToken) /\ csrfToken' # csrfToken =>
       \E c \in DOMAIN running :
         /\ running[c].pageNo = 1
         /\ running[c].pc = "pageText"
         /\ running'[c].found = csrfToken'

C23_FetchOnlyWithout ==
  \A c \in DOMAIN running :
    /\ running'[c].fetches > running[c].fetches =>
         ~Truthy(csrfToken) /\ running'[c].pageNo > 1
    /\ running'[c].fetches <= 1
    /\ running[c].pc = "idle" /\ running'[c].pageNo > 1 =>
         (running'[c].fetches = 1 <=> ~Truthy(csrfToken))

C23_OneRequest ==
  \A c \in DOMAIN running :
    /\ Len(running'[c].sent) > Len(running[c].sent) =>
         /\ running'[c].pageNo > 1
         /\ running'[c].sent
              = << IF Truthy(csrfToken) THEN csrfToken ELSE Str("") >>
         /\ running'[c].fetches = 1 =>
              csrfToken = running'[c].found
    /\ running'[c].pc \in { "rankList", "json", "done" }
         /\ running'[c].pageNo > 1 => Len(running'[c].sent) = 1
    /\ running'[c].pc \notin { "rankList", "json", "done" }
         \/ running'[c].pageNo = 1 => running'[c].sent = << >>

C23_TokenKept ==
  [][C23_Kept /\ C23_FetchOnlyWithout /\ C23_OneRequest]_vars

\* a call that fetched and sent a token, a page-1 call that found none and
\* left it, and a later call that sent it without a fetch
C23_Witness ==
  \E a, b, c \in DOMAIN running :
    /\ running[a].pc = "done" /\ running[a].pageNo > 1
    /\ running[a].fetches = 1 /\ Truthy(running[a].found)
    /\ running[a].sent = << running[a].found >>
    /\ running[b].pc = "done" /\ running[b].pageNo = 1
    /\ running[b].stored = running[a].found /\ running[b].found = Null
    /\ running[c].pc = "done" /\ running[c].pageNo > 1
    /\ running[c].stored = running[a].found /\ b \in 1..(c - 1)
    /\ running[c].fetches = 0 /\ running[c].sent = << running[a].found >>
    /\ csrfToken = running[a].found

(***************************************************************************)
(* C24: when several popularNovels calls for pages > 1 are in flight at    *)
(* the same time on one instance and no token is stored yet, the token is  *)
(* fetched at most once in total and all of those calls send the same      *)
(* token in their getRankList request.                                     *)
(***************************************************************************)
\* the calls for pages > 1 in flight when call c began without a token
C24_Group(c) ==
  IF running[c].pageNo > 1 /\ running[c].stored = Null
  THEN {c} \cup { d \in running[c].beside : running[d].pageNo > 1 }
  ELSE {c}

C24_FetchedOnce ==
  \A c \in DOMAIN running :
    Cardinality({ d \in C24_Group(c) : running[d].fetches > 0 }) <= 1

C24_SameToken ==
  \A c \in DOMAIN running :
    \A d, e \in C24_Group(c) :
      running[d].sent # << >> /\ running[e].sent # << >> =>
        running[d].sent = running[e].sent

C24_SharedToken == C24_FetchedOnce /\ C24_SameToken

\* C24 for every call alone: it fetches while no token is stored, once
C24_FetchWithoutToken == [][C23_FetchOnlyWithout]_vars

\* C24 for the request alone: it carries what is stored when it is built
C24_SendsStored ==
  [][\A c \in DOMAIN running :
       Len(running'[c].sent) > Len(running[c].sent) =>
         running'[c].sent
           = << IF Truthy(csrfToken) THEN csrfToken ELSE Str("") >>]_vars
=============================================================================
